---------------------------- MODULE Spec2Model ----------------------------
(***************************************************************************)
(* Job control of simpl_cli's ShellCommandExecutor                         *)
(* (src/simpl_cli/commands/executor.py) and the loop of HybridShell.run     *)
(* (src/simpl_cli/core/hybrid_shell.py).                                    *)
(*                                                                         *)
(* One primary thread reads lines at the prompt and runs the handlers;      *)
(* every job launched with a trailing "&" gets a daemon monitor thread.     *)
(* The operating system's processes are the environment: a live process     *)
(* may exit at any moment, and a signal or the transfer of the terminal to  *)
(* a job may succeed or fail.  Handing the terminal back to the shell       *)
(* succeeds whenever the shell has saved terminal settings to hand back.    *)
(*                                                                         *)
(* Handlers that never block are one action.  _bring_job_to_foreground      *)
(* blocks in process.wait() and _cleanup_all_jobs sleeps between its        *)
(* terminate signal and its poll, so these two are sequences of steps the   *)
(* monitor threads interleave with.                                         *)
(***************************************************************************)
EXTENDS Integers, Sequences, FiniteSets, TLC

(* ------------------------------ bounds --------------------------------- *)

\* Number of chunks of output a streamed process writes, and of chunks of
\* input forwarded to it.
MaxChunks == 2

\* Jobs that may be unfinished at the same time in JobSpec, where `fg` and
\* `bg` have more than one job to choose from.
MaxAlive == 2

\* Number of background launches attempted in one session.
MaxLaunches == 2

\* Number of jobs the user keeps unfinished (running or stopped) at a time:
\* a further job is launched only while fewer than this many are unfinished.
MaxLive == 1

(* ----------------------------- constants ------------------------------- *)

\* Python's None for a job id / a process-group id (both tested for truth).
NoJob == 0
NoPgid == 0
\* The shell's own process group as owner of the terminal.
ShellGroup == 0
\* self.next_job_id = 1
FirstJobId == 1
\* job_info["exit_code"] = -1
CleanupExitCode == -1
\* Popen.returncode of a process killed by SIGKILL.
KilledCode == -9

\* Exit codes a process ends with by itself.  The shell never branches on
\* the value (only its messages differ), so one value stands for them all;
\* it differs from the two codes the shell itself brings about, -1 and -9.
ExitCodes == {0}

\* Command texts of background launches (cmd_to_run).
Commands == {"sleep 5"}

Statuses == {"running", "stopped", "done", "failed"}
Final == {"done", "failed"}

SIGTSTP == "SIGTSTP"
SIGCONT == "SIGCONT"
SIGINT == "SIGINT"
SIGTERM == "SIGTERM"
SIGKILL == "SIGKILL"

VARIABLES
    jobs,            \* self.jobs: job id -> job_info
    task_queue,      \* self.task_queue: the selection sequence (a deque)
    next_job_id,     \* self.next_job_id
    foreground_job,  \* self.foreground_job (NoJob for None)
    saved_terminal,  \* hasattr(self, "_saved_terminal")
    tty_owner,       \* foreground process group of the controlling terminal
    proc,            \* job id -> the OS process: <<>> alive, <<code>> exited
    monitor,         \* job id -> "polling" | "ended": the monitor thread
    pc,              \* where the primary thread is
    fg_status,       \* _bring_job_to_foreground's local `status`
    cleanup_todo,    \* _cleanup_all_jobs: the rest of list(self.jobs.items())
    last,            \* what the latest step did: its outcome and its signals
    created,         \* ids of the jobs created, in launch order (history)
    jobs_at_cleanup, \* self.jobs as _cleanup_all_jobs found it (history)
    cleanup_calls,   \* number of calls of _cleanup_all_jobs (history)
    aliases,         \* self.aliases: name -> value, in insertion order
    alias_file,      \* Config.ALIAS_FILE: the members of its JSON object
    environ,         \* os.environ: name -> value
    cwd,             \* os.getcwd(): the components of the path
    previous_directory, \* self.previous_directory
    script_active,   \* self.script_runtime.is_active
    awaiting_more,   \* self.script_runtime.awaiting_more_input
    eof_absorbed,    \* the latest read of the prompt was an EOFError that
                     \* the loop answered with `continue` (history)
    available_commands_cache, \* self._available_commands_cache
    dispatched,      \* what the latest execute() did with its line
    stream,          \* stream_shell_command: where it is, and its locals
    terminal,        \* the termios settings of standard input
    child,           \* the process stream_shell_command was given
    saved_termios,   \* self._saved_terminal["termios"], <<>> while not saved
    old_termios      \* _set_foreground_process_group's local old_termios

\* The state of the job controller and of the loop around it.
job_vars == <<jobs, task_queue, next_job_id, foreground_job, saved_terminal,
              tty_owner, proc, monitor, pc, fg_status, cleanup_todo, last,
              created, jobs_at_cleanup, cleanup_calls>>

\* The state that alias, export, unset, assignment and cd lines work on.
shell_vars == <<aliases, alias_file, environ, cwd, previous_directory,
                script_active, awaiting_more, eof_absorbed,
                available_commands_cache, dispatched>>

\* The state of one call of StreamingUIManager.stream_shell_command.
stream_vars == <<stream, terminal, child>>

\* The terminal settings _set_foreground_process_group has read and kept.
tty_vars == <<saved_termios, old_termios>>

vars == <<job_vars, shell_vars, stream_vars, tty_vars>>

(* ------------------------------ helpers -------------------------------- *)

JobIds == DOMAIN jobs

\* The jobs still running or stopped according to the job table.
Unfinished == {j \in JobIds : jobs[j].status \in {"running", "stopped"}}

\* The process id of job j's process; the model names a process by its job.
Pid(j) == j

\* d[k] = v of a Python dict: adds the key or overwrites its value.
DictSet(d, k, v) == [x \in (DOMAIN d) \cup {k} |-> IF x = k THEN v ELSE d[x]]

\* What a step did: "error" when it displayed an error (ui.display_error or
\* a failure notice), "fg_error" for the errors _bring_job_to_foreground
\* displays itself, "interrupt" for ui.display_interrupt, the way the loop
\* was left (see LoopExits) for the step that ends it, else "ok"; and the
\* signal calls it made (see SignalAttempts).
Did(result, sigs) == [result |-> result, sigs |-> sigs]

\* Ascending enumeration of a finite set of integers.
RECURSIVE Ascending(_)
Ascending(S) ==
    IF S = {} THEN <<>>
    ELSE LET m == CHOOSE x \in S : \A y \in S : x <= y
         IN <<m>> \o Ascending(S \ {m})

(* --------------------- job specs: strings as characters ---------------- *)

DigitChars == <<"0", "1", "2", "3", "4", "5", "6", "7", "8", "9">>
IsDigit(c) == \E i \in 1..Len(DigitChars) : DigitChars[i] = c
DigitVal(c) == (CHOOSE i \in 1..Len(DigitChars) : DigitChars[i] = c) - 1

\* str.strip(): drops leading and trailing blanks.
RECURSIVE LStrip(_)
LStrip(s) == IF s # <<>> /\ Head(s) = " " THEN LStrip(Tail(s)) ELSE s
RECURSIVE RStrip(_)
RStrip(s) ==
    IF s # <<>> /\ s[Len(s)] = " " THEN RStrip(SubSeq(s, 1, Len(s) - 1)) ELSE s
Strip(s) == RStrip(LStrip(s))

\* Value of a non-empty run of decimal digits.
RECURSIVE DigitsValue(_)
DigitsValue(s) ==
    IF s = <<>> THEN 0
    ELSE 10 * DigitsValue(SubSeq(s, 1, Len(s) - 1)) + DigitVal(s[Len(s)])

AllDigits(s) == s # <<>> /\ \A i \in 1..Len(s) : IsDigit(s[i])

\* Python's int(str): blanks stripped, an optional sign, decimal digits.
\* <<n>> for the value, <<>> for ValueError.
ParseInt(str) ==
    LET s == Strip(str)
        signed == s # <<>> /\ Head(s) \in {"+", "-"}
        digits == IF signed THEN Tail(s) ELSE s
    IN  IF ~AllDigits(digits) THEN <<>>
        ELSE IF signed /\ Head(s) = "-" THEN << -DigitsValue(digits) >>
        ELSE << DigitsValue(digits) >>

\* _parse_job_spec: the job id a spec names, NoJob for None.
parse_job_spec(spec0) ==
    LET spec == Strip(spec0)
    IN  IF spec = <<"+">> \/ spec = <<"%", "+">>
        THEN IF task_queue # <<>> THEN task_queue[1] ELSE NoJob
        ELSE IF spec = <<"-">> \/ spec = <<"%", "-">>
        THEN IF Len(task_queue) > 1 THEN task_queue[2] ELSE NoJob
        ELSE LET rest == IF spec # <<>> /\ Head(spec) = "%" THEN Tail(spec) ELSE spec
                 n == ParseInt(rest)
             IN  IF rest = <<>> THEN NoJob
                 ELSE IF n # <<>> /\ n[1] \in JobIds THEN n[1]
                 ELSE NoJob

\* _show_jobs_list: the ids of the rows of the table, top to bottom.
show_jobs_list == SelectSeq(task_queue, LAMBDA j : j \in JobIds)

\* A bare `fg` / `bg` that looks at the head of the selection sequence only.
FirstWithStatus_HeadOnly(wanted) ==
    IF /\ task_queue # <<>>
       /\ task_queue[1] \in JobIds
       /\ jobs[task_queue[1]].status \in wanted
    THEN task_queue[1] ELSE NoJob

\* Bare `fg` / `bg`: the first job of the selection sequence whose status is
\* in `wanted`, NoJob for None.
FirstWithStatus(wanted) ==
    LET hits == SelectSeq(task_queue,
                          LAMBDA j : j \in JobIds /\ jobs[j].status \in wanted)
    IN  IF hits = <<>> THEN NoJob ELSE Head(hits)

\* The words after `fg` / `bg` on the line: none, or one job spec.
SpecInputs ==
    { <<"%", "+">>, <<"-">>, <<"1">>, <<"%", "2">>, <<"%", "3">>,
      <<"%", "+", "1">>, <<"%">>, <<"%", "x">> }
ArgLists == {<<>>} \cup { <<s>> : s \in SpecInputs }

(* ------------------------------ signals -------------------------------- *)

\* What the operating system does with one _send_signal_to_job: killpg
\* succeeds ("group"), killpg raises and kill succeeds ("process"), or both
\* raise ("failed").
Deliveries == {"group", "process", "failed"}

\* _send_signal_to_job: the calls made, <<job, signal, target, accepted>>.
SignalAttempts(job_id, sig, d) ==
    IF job_id \notin JobIds THEN <<>>
    ELSE IF jobs[job_id].pgid = NoPgid \/ jobs[job_id].pid = 0 THEN <<>>
    ELSE IF d = "group" THEN << <<job_id, sig, "group", TRUE>> >>
    ELSE << <<job_id, sig, "group", FALSE>>,
            <<job_id, sig, "process", d = "process">> >>

\* _send_signal_to_job: its return value.
send_signal_to_job(job_id, sig, d) ==
    LET tries == SignalAttempts(job_id, sig, d)
    IN  tries # <<>> /\ tries[Len(tries)][4]

(* ----------------------------- terminal -------------------------------- *)

\* A _restore_terminal_control that gives nothing back.
restore_terminal_control_Skipped == tty_owner

\* _restore_terminal_control: the owner of the terminal afterwards.
restore_terminal_control ==
    IF saved_terminal THEN ShellGroup ELSE tty_owner

\* _restore_terminal_control: the settings of the terminal afterwards
\* (tcsetattr with the settings kept in self._saved_terminal).
restored_termios ==
    IF saved_terminal THEN saved_termios[1] ELSE terminal

(* ------------------------------- state --------------------------------- *)

\* A counter that is read but not advanced.
NextJobId_Stuck(n) == n

\* self.next_job_id += 1
NextJobId(n) == n + 1

\* A deque that takes new ids at its right end (append).
appendleft_AtBack(queue, job_id) == Append(queue, job_id)

\* self.task_queue.appendleft(job_id)
appendleft(queue, job_id) == <<job_id>> \o queue

\* The job_info dict of a new job.
NewJob(job_id, pgid, command) ==
    [id |-> job_id, pid |-> Pid(job_id), pgid |-> pgid, command |-> command,
     status |-> "running", exit_code |-> <<>>]

\* job_info["status"] = status
SetStatus(job_id, status) == [jobs EXCEPT ![job_id].status = status]

\* A completion that drops the finished job from the table.
MarkDone_Deletes(job_id, code) == [x \in JobIds \ {job_id} |-> jobs[x]]

(* ------------------ input lines: strings as characters ----------------- *)

Letters ==
    {"a", "b", "c", "d", "e", "f", "g", "h", "i", "j", "k", "l", "m", "n", "o",
     "p", "q", "r", "s", "t", "u", "v", "w", "x", "y", "z", "A", "B", "C", "D",
     "E", "F", "G", "H", "I", "J", "K", "L", "M", "N", "O", "P", "Q", "R", "S",
     "T", "U", "V", "W", "X", "Y", "Z"}

\* The characters of the input lines of the model.  They hold no #, no $,
\* no / and no ~, so the text functions below leave out what the library
\* functions do with those.
Quotes == {"'", "\""}

\* str.startswith(prefix)
StartsWith(s, prefix) ==
    Len(s) >= Len(prefix) /\ SubSeq(s, 1, Len(prefix)) = prefix

\* str.endswith(suffix)
EndsWith(s, suffix) ==
    Len(s) >= Len(suffix) /\ SubSeq(s, Len(s) - Len(suffix) + 1, Len(s)) = suffix

\* c in str, for one character c
Contains(s, c) == \E i \in 1..Len(s) : s[i] = c

\* sub in str
HasSubstring(s, sub) ==
    \E i \in 1..(Len(s) - Len(sub) + 1) : SubSeq(s, i, i + Len(sub) - 1) = sub

\* str.split(c, 1) of a string that holds c: <<before, after>>.
SplitOnce(s, c) ==
    LET i == CHOOSE k \in 1..Len(s) : s[k] = c /\ \A m \in 1..(k - 1) : s[m] # c
    IN  << SubSeq(s, 1, i - 1), SubSeq(s, i + 1, Len(s)) >>

\* str.strip(chars)
RECURSIVE StripChars(_, _)
StripChars(s, chars) ==
    IF s # <<>> /\ Head(s) \in chars THEN StripChars(Tail(s), chars)
    ELSE IF s # <<>> /\ s[Len(s)] \in chars
    THEN StripChars(SubSeq(s, 1, Len(s) - 1), chars)
    ELSE s

\* sep.join(parts)
RECURSIVE Join(_, _)
Join(parts, sep) ==
    IF parts = <<>> THEN <<>>
    ELSE IF Len(parts) = 1 THEN parts[1]
    ELSE parts[1] \o sep \o Join(Tail(parts), sep)

\* str.split(): the words between runs of blanks.
RECURSIVE Words(_)
Words(s) ==
    LET t == LStrip(s)
        n == IF Contains(t, " ")
             THEN (CHOOSE k \in 1..Len(t) :
                       t[k] = " " /\ \A m \in 1..(k - 1) : t[m] # " ") - 1
             ELSE Len(t)
    IN  IF t = <<>> THEN <<>>
        ELSE <<SubSeq(t, 1, n)>> \o Words(SubSeq(t, n + 1, Len(t)))

\* shlex.split(line) in POSIX mode: blanks separate tokens, a quote opens a
\* run that the same quote closes and that may be empty or hold blanks, a
\* backslash outside quotes makes the next character part of the token (in
\* double quotes only before a double quote or a backslash), and an unclosed
\* quote or a backslash at the end is a ValueError (ok = FALSE).
RECURSIVE ShlexScan(_, _, _, _, _, _)
ShlexScan(s, i, token, started, quote, out) ==
    IF i > Len(s)
    THEN IF quote # "" THEN [ok |-> FALSE, tokens |-> <<>>]
         ELSE [ok |-> TRUE,
               tokens |-> IF started THEN Append(out, token) ELSE out]
    ELSE IF quote # ""
    THEN IF s[i] = quote
         THEN ShlexScan(s, i + 1, token, TRUE, "", out)
         ELSE IF /\ quote = "\"" /\ s[i] = "\\" /\ i < Len(s)
                 /\ s[i + 1] \in {"\"", "\\"}
         THEN ShlexScan(s, i + 2, Append(token, s[i + 1]), TRUE, quote, out)
         ELSE ShlexScan(s, i + 1, Append(token, s[i]), TRUE, quote, out)
    ELSE IF s[i] = "\\"
    THEN IF i = Len(s) THEN [ok |-> FALSE, tokens |-> <<>>]
         ELSE ShlexScan(s, i + 2, Append(token, s[i + 1]), TRUE, "", out)
    ELSE IF s[i] = " "
    THEN IF started
         THEN ShlexScan(s, i + 1, <<>>, FALSE, "", Append(out, token))
         ELSE ShlexScan(s, i + 1, <<>>, FALSE, "", out)
    ELSE IF s[i] \in Quotes
    THEN ShlexScan(s, i + 1, token, TRUE, s[i], out)
    ELSE ShlexScan(s, i + 1, Append(token, s[i]), TRUE, "", out)

shlex_split(s) == ShlexScan(s, 1, <<>>, FALSE, "", <<>>)

\* The characters shlex.quote leaves bare: [A-Za-z0-9_@%+=:,./-].
SafeChars ==
    Letters \cup {DigitChars[i] : i \in 1..Len(DigitChars)}
            \cup {"_", "@", "%", "+", "=", ":", ",", ".", "/", "-"}

\* str.replace("'", "'\"'\"'")
RECURSIVE EscapeSingleQuotes(_)
EscapeSingleQuotes(s) ==
    IF s = <<>> THEN <<>>
    ELSE (IF Head(s) = "'" THEN <<"'", "\"", "'", "\"", "'">> ELSE <<Head(s)>>)
         \o EscapeSingleQuotes(Tail(s))

\* shlex.quote(token)
shlex_quote(s) ==
    IF s = <<>> THEN <<"'", "'">>
    ELSE IF \A i \in 1..Len(s) : s[i] \in SafeChars THEN s
    ELSE <<"'">> \o EscapeSingleQuotes(s) \o <<"'">>

\* _is_valid_identifier: ^[A-Za-z_][A-Za-z0-9_]*$
is_valid_identifier(name) ==
    /\ name # <<>>
    /\ name[1] \in Letters \cup {"_"}
    /\ \A i \in 2..Len(name) : name[i] \in Letters \cup {"_"} \/ IsDigit(name[i])

(* ------------------- dicts and the alias file's JSON ------------------- *)

\* A Python dict of strings: its items <<key, value>> in insertion order.
Keys(d) == {d[i][1] : i \in 1..Len(d)}

\* d.get(k): <<value>>, or <<>> for None.
Get(d, k) ==
    IF k \in Keys(d) THEN <<(d[CHOOSE i \in 1..Len(d) : d[i][1] = k])[2]>>
    ELSE <<>>

\* d[k] = v: an old key keeps its place, a new one goes last.
Put(d, k, v) ==
    IF k \in Keys(d)
    THEN [i \in 1..Len(d) |-> IF d[i][1] = k THEN <<k, v>> ELSE d[i]]
    ELSE Append(d, <<k, v>>)

\* del d[k]
Remove(d, k) == SelectSeq(d, LAMBDA item : item[1] # k)

\* d.update(updates)
RECURSIVE Update(_, _)
Update(d, updates) ==
    IF updates = <<>> THEN d
    ELSE Update(Put(d, updates[1][1], updates[1][2]), Tail(updates))

\* d1 == d2 for dicts: the same items, in whatever order.
SameDict(d1, d2) ==
    {d1[i] : i \in 1..Len(d1)} = {d2[i] : i \in 1..Len(d2)}

\* A JSON string: ", the characters with " and \ escaped, and ".
RECURSIVE JsonEscape(_)
JsonEscape(s) ==
    IF s = <<>> THEN <<>>
    ELSE (IF Head(s) \in {"\"", "\\"} THEN <<"\\", Head(s)>> ELSE <<Head(s)>>)
         \o JsonEscape(Tail(s))

JsonString(s) == <<"\"">> \o JsonEscape(s) \o <<"\"">>

\* The members of json.dumps(d, indent=2), one to a line.
RECURSIVE JsonMembers(_)
JsonMembers(d) ==
    IF d = <<>> THEN <<>>
    ELSE <<"\n", " ", " ">> \o JsonString(d[1][1]) \o <<":", " ">>
         \o JsonString(d[1][2])
         \o (IF Len(d) > 1 THEN <<",">> ELSE <<>>) \o JsonMembers(Tail(d))

\* json.dumps(d, indent=2) of a dict of strings.
json_dumps(d) ==
    IF d = <<>> THEN <<"{", "}">>
    ELSE <<"{">> \o JsonMembers(d) \o <<"\n", "}">>

JsonBlanks == {" ", "\n", "\t", "\r"}

RECURSIVE SkipBlanks(_, _)
SkipBlanks(s, i) ==
    IF i <= Len(s) /\ s[i] \in JsonBlanks THEN SkipBlanks(s, i + 1) ELSE i

\* Reads the JSON string whose opening " is before position i: its value
\* and the position after its closing ", or ok = FALSE.
RECURSIVE JsonReadString(_, _, _)
JsonReadString(s, i, acc) ==
    IF i > Len(s) THEN [ok |-> FALSE, val |-> <<>>, next |-> i]
    ELSE IF s[i] = "\"" THEN [ok |-> TRUE, val |-> acc, next |-> i + 1]
    ELSE IF s[i] = "\\"
    THEN IF i + 1 <= Len(s) /\ s[i + 1] \in {"\"", "\\"}
         THEN JsonReadString(s, i + 2, Append(acc, s[i + 1]))
         ELSE [ok |-> FALSE, val |-> <<>>, next |-> i]
    ELSE JsonReadString(s, i + 1, Append(acc, s[i]))

\* Reads "key": "value" members from position i up to the closing }.
RECURSIVE JsonReadMembers(_, _, _)
JsonReadMembers(s, i, d) ==
    LET bad == [ok |-> FALSE, dict |-> <<>>]
        k0 == SkipBlanks(s, i)
        key == JsonReadString(s, k0 + 1, <<>>)
        c0 == SkipBlanks(s, key.next)
        v0 == SkipBlanks(s, c0 + 1)
        val == JsonReadString(s, v0 + 1, <<>>)
        e0 == SkipBlanks(s, val.next)
    IN  IF k0 > Len(s) \/ s[k0] # "\"" \/ ~key.ok THEN bad
        ELSE IF c0 > Len(s) \/ s[c0] # ":" THEN bad
        ELSE IF v0 > Len(s) \/ s[v0] # "\"" \/ ~val.ok THEN bad
        ELSE IF e0 > Len(s) THEN bad
        ELSE IF s[e0] = ","
        THEN JsonReadMembers(s, e0 + 1, Put(d, key.val, val.val))
        ELSE IF s[e0] = "}" /\ SkipBlanks(s, e0 + 1) > Len(s)
        THEN [ok |-> TRUE, dict |-> Put(d, key.val, val.val)]
        ELSE bad

\* json.loads(text) of an object whose values are strings; ok = FALSE for
\* a text that is no such object.
json_loads(s) ==
    LET o == SkipBlanks(s, 1)
        m == SkipBlanks(s, o + 1)
    IN  IF o > Len(s) \/ s[o] # "{" THEN [ok |-> FALSE, dict |-> <<>>]
        ELSE IF m <= Len(s) /\ s[m] = "}" /\ SkipBlanks(s, m + 1) > Len(s)
        THEN [ok |-> TRUE, dict |-> <<>>]
        ELSE JsonReadMembers(s, m, <<>>)

\* The content Config.ALIAS_FILE is created with.
EmptyAliasFile == <<"{", "}">>

\* _load_aliases: the dict read from the file, empty when the file is
\* blank or cannot be read or parsed.
load_aliases(file) ==
    LET raw == StripChars(file, JsonBlanks)
        object == json_loads(raw)
    IN  IF raw # <<>> /\ object.ok THEN object.dict ELSE <<>>

\* What a write_text can do: write the text, fail before touching the file
\* ("refused"), or fail after truncating it ("truncated").
Writes == {"written", "refused", "truncated"}

\* A _save_aliases that writes nothing.
save_aliases_Forgets(table, file, w) == file

\* _save_aliases: the file after write_text(json.dumps(self.aliases,
\* indent=2)) with outcome w; an exception of write_text is swallowed.
save_aliases(table, file, w) ==
    IF w = "written" THEN json_dumps(table)
    ELSE IF w = "truncated" THEN <<>>
    ELSE file

(* --------------------- execute(line): classification ------------------- *)

\* Words of the command language, as characters.
W_alias == <<"a", "l", "i", "a", "s">>
W_unalias == <<"u", "n", "a", "l", "i", "a", "s">>
W_export == <<"e", "x", "p", "o", "r", "t">>
W_unset == <<"u", "n", "s", "e", "t">>
W_files == <<"f", "i", "l", "e", "s">>
W_jobs == <<"j", "o", "b", "s">>
W_fg == <<"f", "g">>
W_bg == <<"b", "g">>
W_exit == <<"e", "x", "i", "t">>
W_clear == <<"c", "l", "e", "a", "r">>
W_cd == <<"c", "d">>
W_source == <<"s", "o", "u", "r", "c", "e">>
W_deactivate == <<"d", "e", "a", "c", "t", "i", "v", "a", "t", "e">>
W_activate == <<"a", "c", "t", "i", "v", "a", "t", "e">>
W_py == <<"p", "y">>
W_ls == <<"l", "s">>
W_sudo == <<"s", "u", "d", "o">>
W_ping == <<"p", "i", "n", "g">>
W_touch == <<"t", "o", "u", "c", "h">>
W_PATH == <<"P", "A", "T", "H">>
W_help == <<"/", "h", "e", "l", "p">>
W_config_reload == <<"c", "o", "n", "f", "i", "g", "_", "r", "e", "l", "o", "a", "d">>
W_cleanup_memory == <<"/", "c", "l", "e", "a", "n", "u", "p", "_", "m", "e", "m", "o", "r", "y">>
SP == <<" ">>

\* The directories that exist and can be entered, as paths of components
\* from the root; Home is os.path.expanduser("~").
Home == << <<"h">> >>
Dirs == { <<>>, Home, Home \o << <<"d">> >> }

\* The directory the PATH of the starting environment names, and the
\* executable files in it; no other directory holds an executable file.
BinDir == <<"b">>
PathCommands == {W_ls, W_touch}
Executables(directory) == IF directory = BinDir THEN PathCommands ELSE {}

\* Config.INTERACTIVE_COMMANDS and Config.STREAMING_COMMANDS, as far as the
\* lines of the model go.
InteractiveCommands == { <<"v", "i", "m">>, W_sudo, W_ping }
StreamingCommands == { W_ping, <<"p", "i", "p">> }

\* os.environ when the shell starts.
StartEnviron == << << <<"B">>, <<"0">> >>, << W_PATH, BinDir >> >>

\* self._available_commands_cache = None
NoCache == <<>>

\* The outcome of one execute(): the state it leaves, the handler the line
\* went to (route), the text that handler was given (command), whether
\* ui.display_error and ui.display_interrupt were called, the way an
\* interactive command was run (mode), the command of the background job to
\* start (launch), whether completion_manager.update_cache was called
\* (updated), and the value returned ("exit" or "none"; "raised" stands for
\* an exception that leaves execute).
ShellState ==
    [aliases |-> aliases, alias_file |-> alias_file, environ |-> environ,
     cwd |-> cwd, previous_directory |-> previous_directory,
     script_active |-> script_active, awaiting_more |-> awaiting_more,
     cache |-> available_commands_cache,
     route |-> "none", command |-> <<>>, error |-> FALSE, interrupt |-> FALSE,
     mode |-> "none", launch |-> <<>>, updated |-> FALSE, result |-> "none"]

\* The outcome of the latest execute() as kept in `dispatched`.
Outcome(out) ==
    [route |-> out.route, command |-> out.command, error |-> out.error,
     interrupt |-> out.interrupt, mode |-> out.mode, updated |-> out.updated,
     result |-> out.result]

To(st, route, command) == [st EXCEPT !.route = route, !.command = command]
Failed(st, route, command) ==
    [st EXCEPT !.route = route, !.command = command, !.error = TRUE]

\* A loop over definitions that keeps those before a bad one.
RECURSIVE Definitions_KeepsValid(_, _, _)
Definitions_KeepsValid(tokens, unquote, updates) ==
    IF tokens = <<>> THEN [ok |-> TRUE, updates |-> updates]
    ELSE IF ~Contains(Head(tokens), "=") THEN [ok |-> TRUE, updates |-> updates]
    ELSE LET parts == SplitOnce(Head(tokens), "=")
             value == IF unquote THEN StripChars(parts[2], Quotes) ELSE parts[2]
         IN  IF ~is_valid_identifier(parts[1])
             THEN [ok |-> TRUE, updates |-> updates]
             ELSE Definitions_KeepsValid(Tail(tokens), unquote,
                                         Put(updates, parts[1], value))

\* The loop of _handle_alias_command (unquote) and _handle_export_command
\* over the tokens after the command word: the dict `updates`, or ok = FALSE
\* at the first token without = or with a name that is no identifier.
RECURSIVE Definitions(_, _, _)
Definitions(tokens, unquote, updates) ==
    IF tokens = <<>> THEN [ok |-> TRUE, updates |-> updates]
    ELSE IF ~Contains(Head(tokens), "=") THEN [ok |-> FALSE, updates |-> <<>>]
    ELSE LET parts == SplitOnce(Head(tokens), "=")
             value == IF unquote THEN StripChars(parts[2], Quotes) ELSE parts[2]
         IN  IF ~is_valid_identifier(parts[1])
             THEN [ok |-> FALSE, updates |-> <<>>]
             ELSE Definitions(Tail(tokens), unquote,
                              Put(updates, parts[1], value))

\* _handle_alias_command
handle_alias_command(st, command, w) ==
    LET split == shlex_split(command)
        defs == Definitions(Tail(split.tokens), TRUE, <<>>)
        table == Update(st.aliases, defs.updates)
    IN  IF ~split.ok THEN Failed(st, "alias", command)
        ELSE IF Len(split.tokens) = 1 THEN To(st, "alias", command)
        ELSE IF ~defs.ok THEN Failed(st, "alias", command)
        ELSE [To(st, "alias", command) EXCEPT
                 !.aliases = table,
                 !.alias_file = save_aliases(table, st.alias_file, w),
                 !.cache = NoCache]

\* _handle_unalias_command
handle_unalias_command(st, command, w) ==
    LET split == shlex_split(command)
        names == Tail(split.tokens)
        removed == SelectSeq(names, LAMBDA name : name \in Keys(st.aliases))
        table == SelectSeq(st.aliases,
                           LAMBDA item : \A i \in 1..Len(names) : names[i] # item[1])
    IN  IF ~split.ok THEN Failed(st, "unalias", command)
        ELSE IF Len(split.tokens) < 2 THEN Failed(st, "unalias", command)
        ELSE IF removed = <<>> THEN To(st, "unalias", command)
        ELSE [To(st, "unalias", command) EXCEPT
                 !.aliases = table,
                 !.alias_file = save_aliases(table, st.alias_file, w),
                 !.cache = NoCache]

\* _handle_alias_management: <<handled, outcome>>.
handle_alias_management(st, command, w) ==
    IF command = W_alias THEN <<TRUE, To(st, "alias", command)>>
    ELSE IF StartsWith(command, W_alias \o SP)
    THEN <<TRUE, handle_alias_command(st, command, w)>>
    ELSE IF StartsWith(command, W_unalias)
    THEN <<TRUE, handle_unalias_command(st, command, w)>>
    ELSE <<FALSE, st>>

\* _handle_export_command: <<handled, outcome>>.
handle_export_command(st, command) ==
    LET split == shlex_split(command)
        defs == Definitions(Tail(split.tokens), FALSE, <<>>)
    IN  IF ~StartsWith(command, W_export) THEN <<FALSE, st>>
        ELSE IF ~split.ok THEN <<TRUE, Failed(st, "export", command)>>
        ELSE IF Len(split.tokens) = 1 THEN <<TRUE, To(st, "export", command)>>
        ELSE IF ~defs.ok THEN <<TRUE, Failed(st, "export", command)>>
        ELSE <<TRUE, [To(st, "export", command) EXCEPT
                         !.environ = Update(st.environ, defs.updates)]>>

\* _handle_unset_command: <<handled, outcome>>.
handle_unset_command(st, command) ==
    LET split == shlex_split(command)
        names == Tail(split.tokens)
    IN  IF ~StartsWith(command, W_unset \o SP) THEN <<FALSE, st>>
        ELSE IF ~split.ok THEN <<TRUE, Failed(st, "unset", command)>>
        ELSE IF Len(split.tokens) < 2 THEN <<TRUE, Failed(st, "unset", command)>>
        ELSE <<TRUE, [To(st, "unset", command) EXCEPT
                         !.environ = SelectSeq(st.environ,
                             LAMBDA item : \A i \in 1..Len(names) :
                                               names[i] # item[1])]>>

\* _handle_assignment_only: <<handled, outcome>>.  (No value of the model
\* holds $((, so no arithmetic is evaluated.)
handle_assignment_only(st, command) ==
    LET split == shlex_split(command)
        tokens == IF split.ok THEN split.tokens ELSE <<>>
        all_have_equal == \A i \in 1..Len(tokens) : Contains(tokens[i], "=")
        defs == Definitions(tokens, FALSE, <<>>)
    IN  IF ~Contains(command, "=") \/ StartsWith(command, W_alias)
        THEN <<FALSE, st>>
        ELSE IF tokens = <<>> THEN <<FALSE, st>>
        ELSE IF all_have_equal /\ defs.ok
        THEN <<TRUE, [To(st, "assignment", command) EXCEPT
                         !.environ = Update(st.environ, defs.updates)]>>
        ELSE <<FALSE, st>>

\* An expansion that goes on while the first token is an alias.
RECURSIVE expand_alias_Again(_, _)
expand_alias_Again(table, command) ==
    LET split == shlex_split(command)
        value == IF split.ok /\ split.tokens # <<>>
                 THEN Get(table, split.tokens[1]) ELSE <<>>
        rest == Join([i \in 1..(Len(split.tokens) - 1) |->
                          shlex_quote(split.tokens[i + 1])], SP)
        once == Strip(value[1] \o SP \o rest)
    IN  IF value = <<>> \/ value[1] = <<>> THEN command
        ELSE IF once = command THEN once
        ELSE expand_alias_Again(Remove(table, split.tokens[1]), once)

\* _expand_alias: the alias value and the re-quoted rest of the tokens, or
\* the command itself when it cannot be split, has no token, or its first
\* token has no alias value or an empty one.
expand_alias(table, command) ==
    LET split == shlex_split(command)
        value == IF split.ok /\ split.tokens # <<>>
                 THEN Get(table, split.tokens[1]) ELSE <<>>
        rest == Join([i \in 1..(Len(split.tokens) - 1) |->
                          shlex_quote(split.tokens[i + 1])], SP)
    IN  IF value = <<>> \/ value[1] = <<>> THEN command
        ELSE Strip(value[1] \o SP \o rest)

\* str.split(c) for one character c
RECURSIVE Split(_, _)
Split(s, c) ==
    IF ~Contains(s, c) THEN <<s>>
    ELSE <<SplitOnce(s, c)[1]>> \o Split(SplitOnce(s, c)[2], c)

\* The names of the executable files in the directories of PATH, as the
\* loops of _is_known_command and _get_available_commands find them.
path_executables(env) ==
    LET found == Get(env, W_PATH)
        dirs == IF found = <<>> THEN <<>> ELSE Split(found[1], ":")
    IN  UNION {Executables(dirs[i]) : i \in 1..Len(dirs)}

\* _get_available_commands: the value it returns and leaves in the cache.
get_available_commands(st) ==
    IF st.cache # NoCache THEN st.cache
    ELSE <<Keys(st.aliases) \cup path_executables(st.environ)>>

\* _has_shell_operator
has_shell_operator(command) ==
    \E op \in { <<"|">>, <<"&", "&">>, <<"|", "|">>, <<";">>, <<">">>, <<"<">> } :
        HasSubstring(command, op)

\* The builtins of _is_known_command.
KnownBuiltins ==
    { <<"c", "d">>,
      <<"l", "s">>,
      <<"p", "w", "d">>,
      <<"e", "c", "h", "o">>,
      <<"c", "a", "t">>,
      <<"m", "k", "d", "i", "r">>,
      <<"r", "m">>,
      <<"c", "p">>,
      <<"m", "v">>,
      <<"g", "r", "e", "p">>,
      <<"f", "i", "n", "d">>,
      <<"c", "h", "m", "o", "d">>,
      <<"c", "h", "o", "w", "n">>,
      <<"p", "s">>,
      <<"k", "i", "l", "l">>,
      <<"j", "o", "b", "s">>,
      <<"f", "g">>,
      <<"b", "g">>,
      <<"e", "x", "p", "o", "r", "t">>,
      <<"u", "n", "s", "e", "t">>,
      <<"a", "l", "i", "a", "s">>,
      <<"u", "n", "a", "l", "i", "a", "s">>,
      <<"s", "o", "u", "r", "c", "e">>,
      <<".">>,
      <<"e", "x", "i", "t">>,
      <<"c", "l", "e", "a", "r">>,
      <<"h", "i", "s", "t", "o", "r", "y">>,
      <<"t", "y", "p", "e">>,
      <<"w", "h", "i", "c", "h">>,
      <<"w", "h", "e", "r", "e", "i", "s">> }

\* _is_known_command
is_known_command(st, cmd) ==
    \/ cmd \in KnownBuiltins
    \/ cmd \in Keys(st.aliases)
    \/ cmd \in path_executables(st.environ)

\* The directory _handle_cd_command hands to os.chdir for the path after
\* "cd": none for the home directory, - for previous_directory (which is
\* never empty), else a name relative to the working directory.
cd_target(st, path) ==
    IF path = <<>> THEN Home
    ELSE IF path = <<"-">> THEN st.previous_directory
    ELSE IF path = <<".">> THEN st.cwd
    ELSE IF path = <<".", ".">> THEN SubSeq(st.cwd, 1, Len(st.cwd) - 1)
    ELSE Append(st.cwd, path)

\* A _handle_cd_command that records the old directory before it knows
\* whether the new one can be entered.
handle_cd_command_RecordsFirst(st, command) ==
    LET target == cd_target(st, Strip(SubSeq(command, 4, Len(command))))
    IN  IF target \in Dirs
        THEN [To(st, "cd", command) EXCEPT
                 !.cwd = target, !.previous_directory = st.cwd]
        ELSE [Failed(st, "cd", command) EXCEPT !.previous_directory = st.cwd]

\* A _handle_cd_command that reads the directory to record after os.chdir.
handle_cd_command_RecordsNew(st, command) ==
    LET target == cd_target(st, Strip(SubSeq(command, 4, Len(command))))
    IN  IF target \in Dirs
        THEN [To(st, "cd", command) EXCEPT
                 !.cwd = target, !.previous_directory = target]
        ELSE Failed(st, "cd", command)

\* _handle_cd_command: os.chdir raises OSError unless the target is a
\* directory that can be entered.
handle_cd_command(st, command) ==
    LET target == cd_target(st, Strip(SubSeq(command, 4, Len(command))))
    IN  IF target \in Dirs
        THEN [To(st, "cd", command) EXCEPT
                 !.cwd = target, !.previous_directory = st.cwd]
        ELSE Failed(st, "cd", command)

\* _handle_auto_cd: <<handled, outcome>>.
handle_auto_cd(st, command) ==
    LET cmd == Strip(command)
        as_cd == W_cd \o SP \o cmd
    IN  IF Contains(cmd, " ") \/ cmd = <<>> THEN <<FALSE, st>>
        ELSE IF cmd \in { <<".">>, <<".", ".">>, <<"-">> }
        THEN <<TRUE, handle_cd_command(st, as_cd)>>
        ELSE IF is_known_command(st, cmd) THEN <<FALSE, st>>
        ELSE IF Append(st.cwd, cmd) \in Dirs
        THEN <<TRUE, handle_cd_command(st, as_cd)>>
        ELSE <<FALSE, st>>

\* _looks_like_env_assignment, for tokens without a path separator.
looks_like_env_assignment(token) == Contains(token, "=")

\* _is_recursive_ls
is_recursive_ls(command) ==
    LET split == shlex_split(command)
        tokens == split.tokens
        assigned == {i \in 1..Len(tokens) :
                        \A k \in 1..i : looks_like_env_assignment(tokens[k])}
        idx0 == Cardinality(assigned) + 1
        idx == IF idx0 <= Len(tokens) /\ tokens[idx0] = W_sudo
                  /\ idx0 + 1 <= Len(tokens)
               THEN idx0 + 1 ELSE idx0
    IN  /\ split.ok
        /\ idx0 <= Len(tokens)
        /\ tokens[idx] = W_ls
        /\ \E i \in (idx + 1)..Len(tokens) :
               /\ tokens[i] # <<"-", "-">>
               /\ StartsWith(tokens[i], <<"-">>)
               /\ Contains(tokens[i], "R")

\* _has_background_execution: the line ends in & and the character before
\* that is not another &.
has_background_execution(command) ==
    LET stripped == RStrip(command)
        n == Len(stripped)
    IN  /\ stripped # <<>>
        /\ stripped[n] = "&"
        /\ ~(n > 1 /\ stripped[n - 1] = "&")

\* _should_stream_interactive_command
should_stream_interactive_command(command) ==
    LET parts == Words(Strip(command))
        base_cmd == IF parts[1] = W_sudo /\ Len(parts) > 1
                    THEN parts[2] ELSE parts[1]
    IN  parts # <<>> /\ base_cmd \in StreamingCommands

\* _execute_background_command up to the point where it takes a job id:
\* the command to run is the line without its last &.  (Its two ways to
\* _handle_passthrough_interactive_command are never taken, since
\* _has_background_execution has answered True for the same line.)
execute_background_command(st, command) ==
    LET stripped == RStrip(command)
        cmd_to_run == RStrip(SubSeq(stripped, 1, Len(stripped) - 1))
    IN  IF cmd_to_run = <<>>
        THEN [Failed(st, "interactive", command) EXCEPT !.mode = "background"]
        ELSE [To(st, "interactive", command) EXCEPT
                 !.mode = "background", !.launch = cmd_to_run]

\* _handle_interactive_command, with the streaming process spawned.
handle_interactive_command(st, command) ==
    IF has_background_execution(command)
    THEN execute_background_command(st, command)
    ELSE IF should_stream_interactive_command(command)
    THEN [To(st, "interactive", command) EXCEPT !.mode = "streaming"]
    ELSE [To(st, "interactive", command) EXCEPT !.mode = "passthrough"]

\* _update_completion_if_needed
modify_commands ==
    { W_touch, <<"m", "k", "d", "i", "r">>, <<"r", "m">>,
      <<"r", "m", "d", "i", "r">>, <<"m", "v">>, <<"c", "p">>, <<"l", "n">> }

\* _handle_regular_command: the shell answers "command not found" for a
\* first word that is no executable file on PATH, and then
\* _suggest_command_alternatives asks _get_available_commands; at the end
\* comes _update_completion_if_needed.
handle_regular_command(st, command) ==
    LET base_cmd == Words(command)[1]
        missing == base_cmd \notin path_executables(st.environ)
    IN  [To(st, "regular", command) EXCEPT
            !.cache = IF missing THEN get_available_commands(st) ELSE st.cache,
            !.updated = base_cmd \in modify_commands]

\* _is_interactive_command, for lines without /, ~ and |: no token is a
\* local executable and nothing runs in a pipeline.
is_interactive_command(command) ==
    \/ has_background_execution(command)
    \/ is_recursive_ls(command)
    \/ Words(command)[1] \in {W_jobs, W_fg, W_bg}
    \/ Words(command)[1] \in InteractiveCommands

\* ScriptRuntime.activate and ScriptRuntime.deactivate: both act only when
\* they change _active.
activate(st) ==
    IF ~st.script_active
    THEN [st EXCEPT !.script_active = TRUE, !.awaiting_more = FALSE]
    ELSE st

deactivate(st) ==
    IF st.script_active
    THEN [st EXCEPT !.script_active = FALSE, !.awaiting_more = FALSE]
    ELSE st

\* ScriptRuntime.reset and ScriptRuntime.cancel_pending_block, on the flags.
reset(st) == [st EXCEPT !.awaiting_more = FALSE]
cancel_pending_block(st) == [st EXCEPT !.awaiting_more = FALSE]

\* InteractiveConsole.push(source), for sources with balanced brackets and
\* no trailing backslash: a blank line closes what is pending; an indented
\* line continues a pending block; with nothing pending, an unindented
\* line that ends with a colon opens a block; anything else is run or is a
\* syntax error, and leaves nothing pending.
needs_more(pending, source) ==
    IF Strip(source) = <<>> THEN FALSE
    ELSE IF pending THEN Head(source) = " "
    ELSE Head(source) # " " /\ EndsWith(RStrip(source), <<":">>)

\* ScriptRuntime._push: _awaiting_more = needs_more.
push(st, source) ==
    [st EXCEPT !.awaiting_more = needs_more(st.awaiting_more, source)]

\* ScriptRuntime.run_inline: _active is set for the push and put back.
run_inline(st, source) == push(st, source)

\* ScriptRuntime.run_line.
run_line(st, source) == push(activate(st), source)

\* CommandExecutor.in_script_mode and exit_script_mode.
in_script_mode(st) == st.script_active \/ st.awaiting_more
exit_script_mode(st) == deactivate(st)

\* _handle_script_commands: <<handled, outcome>>.
handle_script_commands(st, command) ==
    IF command \in {W_py, W_py \o SP \o <<"e", "n", "t", "e", "r">>}
    THEN <<TRUE, activate(To(st, "script_toggle", command))>>
    ELSE IF command \in {W_py \o SP \o W_exit, W_exit \o W_py}
    THEN <<TRUE, deactivate(To(st, "script_toggle", command))>>
    ELSE IF command = W_py \o SP \o <<"r", "e", "s", "e", "t">>
    THEN <<TRUE, reset(To(st, "script_toggle", command))>>
    ELSE IF command = W_py \o SP \o <<"c", "a", "n", "c", "e", "l">>
    THEN <<TRUE, cancel_pending_block(To(st, "script_toggle", command))>>
    ELSE IF StartsWith(command, W_py \o SP)
    THEN IF LStrip(SubSeq(command, 4, Len(command))) # <<>>
         THEN <<TRUE, run_inline(To(st, "script_inline", command),
                                 LStrip(SubSeq(command, 4, Len(command))))>>
         ELSE <<TRUE, activate(To(st, "script_inline", command))>>
    ELSE <<FALSE, st>>

\* Shortcuts of script mode without the words that leave it.
handle_script_active_shortcuts_NoExit(st, command) ==
    IF command = W_clear
    THEN <<TRUE, deactivate(To(st, "script_shortcut", command))>>
    ELSE IF command = <<"c", "a", "n", "c", "e", "l">>
    THEN <<TRUE, cancel_pending_block(To(st, "script_shortcut", command))>>
    ELSE <<FALSE, st>>

\* _handle_script_active_shortcuts: <<handled, outcome>>.
handle_script_active_shortcuts(st, command) ==
    IF command \in {W_exit, W_exit \o <<"(", ")">>, <<"q", "u", "i", "t">>,
                    <<"q", "u", "i", "t", "(", ")">>}
    THEN <<TRUE, deactivate(To(st, "script_shortcut", command))>>
    ELSE IF command = W_clear
    THEN <<TRUE, deactivate(To(st, "script_shortcut", command))>>
    ELSE IF command = <<"c", "a", "n", "c", "e", "l">>
    THEN <<TRUE, cancel_pending_block(To(st, "script_shortcut", command))>>
    ELSE <<FALSE, st>>

\* execute, from the alias expansion on (lines 105-154): the handler the
\* expanded line goes to.
dispatch_expanded(st, command) ==
    LET normalized == Strip(command)
        auto_cd == handle_auto_cd(st, normalized)
    IN  IF StartsWith(normalized, W_files) THEN To(st, "files", command)
        ELSE IF \/ normalized \in {W_jobs, W_fg, W_bg}
                \/ StartsWith(normalized, W_fg \o SP)
                \/ StartsWith(normalized, W_bg \o SP)
        THEN To(st, "job_control", normalized)
        ELSE IF normalized = W_exit
        THEN [To(st, "exit", command) EXCEPT !.result = "exit"]
        ELSE IF normalized = W_clear THEN To(st, "clear", command)
        ELSE IF normalized = W_cd \/ StartsWith(normalized, W_cd \o SP)
        THEN IF has_shell_operator(command)
             THEN handle_regular_command(st, command)
             ELSE [handle_cd_command(st, normalized) EXCEPT !.updated = TRUE]
        ELSE IF StartsWith(normalized, W_source \o SP)
        THEN To(st, "source", normalized)
        ELSE IF normalized = W_deactivate THEN To(st, "deactivate", normalized)
        ELSE IF \/ EndsWith(normalized, <<"/">> \o W_activate)
                \/ EndsWith(normalized, <<"\\">> \o W_activate)
                \/ StartsWith(normalized, W_activate \o SP)
        THEN To(st, "activate", normalized)
        ELSE IF is_interactive_command(command)
        THEN handle_interactive_command(st, command)
        ELSE IF auto_cd[1] THEN auto_cd[2]
        ELSE handle_regular_command(st, command)

\* An execute that tests for script mode before it tests for a blank line.
execute_ScriptFirst(st, command, reload_ok, w) ==
    LET normalized == Strip(command)
        script == handle_script_commands(st, normalized)
    IN  IF script[1] THEN script[2]
        ELSE IF st.script_active
        THEN run_line(To(st, "script_line", command), command)
        ELSE IF normalized = <<>> THEN To(st, "empty", command)
        ELSE dispatch_expanded(st, expand_alias(st.aliases, command))

\* execute(command): the outcome for the state st, with reload_ok the success
\* of Config.reload() and w the outcome of a write of the alias file.
execute(st, command, reload_ok, w) ==
    LET normalized == Strip(command)
        script == handle_script_commands(st, normalized)
        shortcut == handle_script_active_shortcuts(st, normalized)
        management == handle_alias_management(st, normalized, w)
        export == handle_export_command(st, normalized)
        unset == handle_unset_command(st, normalized)
        assignment == handle_assignment_only(st, normalized)
    IN  IF normalized = <<>> THEN To(st, "empty", command)
        ELSE IF normalized = W_help THEN To(st, "help", command)
        ELSE IF normalized \in {<<"/">> \o W_config_reload, W_config_reload}
        THEN IF reload_ok
             THEN [To(st, "config_reload", command) EXCEPT
                      !.aliases = load_aliases(st.alias_file),
                      !.cache = NoCache]
             ELSE To(st, "config_reload", command)
        ELSE IF normalized = W_cleanup_memory
        THEN [To(st, "cleanup_memory", command) EXCEPT !.cache = NoCache]
        ELSE IF StartsWith(command, <<"!">>) THEN To(st, "environment", command)
        ELSE IF script[1] THEN script[2]
        ELSE IF st.script_active
        THEN IF shortcut[1] THEN shortcut[2]
             ELSE run_line(To(st, "script_line", command), command)
        ELSE IF management[1] THEN management[2]
        ELSE IF export[1] THEN export[2]
        ELSE IF unset[1] THEN unset[2]
        ELSE IF assignment[1] THEN assignment[2]
        ELSE dispatch_expanded(st, expand_alias(st.aliases, command))

\* The terminal as the prompt leaves it, and as tty.setcbreak sets it.
Cooked == "cooked"
Cbreak == "cbreak"

\* No call of stream_shell_command is under way: its locals as the call
\* sets them at entry (lines 78-97).
NoStream ==
    [pc |-> "idle", input_enabled |-> FALSE, old_term_settings |-> <<>>,
     cancelled |-> FALSE, exit_code |-> <<>>, chunks |-> 0, raising |-> FALSE]

\* A process: alive or exited, its output not yet read from the pipe, what
\* it has written in all, the bytes forwarded to its standard input, and
\* the signals sent to it, each with whether the call succeeded.
NoChild ==
    [alive |-> FALSE, pending |-> 0, written |-> 0, input |-> 0, sent |-> <<>>]

\* The ways a handler ends: it returns, or it raises an exception or the
\* KeyboardInterrupt of a Ctrl-C.
Raises == {"none", "Exception", "KeyboardInterrupt"}

\* Except clauses without `except KeyboardInterrupt`.
execute_caught_ExceptionOnly(st, command, out, popen_ok, raised, done) ==
    LET reached == IF done THEN out ELSE To(st, out.route, out.command)
    IN  IF Strip(command) = <<>> THEN out
        ELSE IF raised = "KeyboardInterrupt"
        THEN [reached EXCEPT !.result = "raised"]
        ELSE IF raised = "Exception"
        THEN [reached EXCEPT !.error = TRUE, !.result = "none"]
        ELSE out

\* The try statement of execute (lines 65-161) around the handler of the
\* line, whose outcome when it returns is out, with the answers of the
\* environment: popen_ok says whether subprocess.Popen creates the process
\* of a background or streaming command, raised how the handler ends, and
\* done whether a handler that raises had made its changes before.  A blank
\* line returns before the try statement.  A failed Popen is reported by
\* the handler itself, and a streaming command then runs as a passthrough
\* command.
execute_caught(st, command, out, popen_ok, raised, done) ==
    LET reached == IF done THEN out ELSE To(st, out.route, out.command)
    IN  IF Strip(command) = <<>> THEN out
        ELSE IF raised = "KeyboardInterrupt"
        THEN [reached EXCEPT !.interrupt = TRUE, !.result = "none"]
        ELSE IF raised = "Exception"
        THEN [reached EXCEPT !.error = TRUE, !.result = "none"]
        ELSE IF out.mode = "streaming" /\ ~popen_ok
        THEN [out EXCEPT !.mode = "passthrough", !.error = TRUE]
        ELSE IF out.launch # <<>> /\ ~popen_ok
        THEN [out EXCEPT !.error = TRUE]
        ELSE out

\* execute(command) with its try statement and the answers of the
\* environment.
execute_try(st, command, reload_ok, w, popen_ok, raised, done) ==
    execute_caught(st, command, execute(st, command, reload_ok, w),
                   popen_ok, raised, done)

\* status = "done" and exit_code = code on one job_info.
MarkDone(job_id, code) ==
    [jobs EXCEPT ![job_id].status = "done", ![job_id].exit_code = <<code>>]

Init ==
    /\ jobs = <<>>
    /\ task_queue = <<>>
    /\ next_job_id = FirstJobId
    /\ foreground_job = NoJob
    /\ saved_terminal = FALSE
    /\ tty_owner = ShellGroup
    /\ proc = <<>>
    /\ monitor = <<>>
    /\ pc = "prompt"
    /\ fg_status = "none"
    /\ cleanup_todo = <<>>
    /\ last = Did("ok", <<>>)
    /\ created = <<>>
    /\ jobs_at_cleanup = <<>>
    /\ cleanup_calls = 0
    /\ alias_file = EmptyAliasFile
    /\ aliases = load_aliases(alias_file)
    /\ environ = StartEnviron
    /\ cwd = Home
    /\ previous_directory = cwd
    /\ script_active = FALSE
    /\ awaiting_more = FALSE
    /\ eof_absorbed = FALSE
    /\ available_commands_cache = NoCache
    /\ dispatched = Outcome(ShellState)
    /\ stream = NoStream
    /\ terminal = Cooked
    /\ child = NoChild
    /\ saved_termios = <<>>
    /\ old_termios = <<>>

(* -------------------- background launch and monitors ------------------- *)

\* A launch that registers the job and leaves it out of task_queue.
StartBackgroundJob_Unlisted(command, popen_ok, pgid_ok) ==
    /\ LET job_id == next_job_id
           pgid == IF pgid_ok THEN Pid(job_id) ELSE NoPgid
       IN  /\ next_job_id' = NextJobId(next_job_id)
           /\ IF popen_ok
              THEN /\ jobs' = DictSet(jobs, job_id, NewJob(job_id, pgid, command))
                   /\ proc' = DictSet(proc, job_id, <<>>)
                   /\ monitor' = DictSet(monitor, job_id, "polling")
                   /\ created' = Append(created, job_id)
                   /\ last' = Did("ok", <<>>)
                   /\ UNCHANGED task_queue
              ELSE /\ last' = Did("error", <<>>)
                   /\ UNCHANGED <<jobs, task_queue, proc, monitor, created>>
    /\ UNCHANGED <<foreground_job, saved_terminal, tty_owner, pc, fg_status,
                   cleanup_todo, jobs_at_cleanup, cleanup_calls>>

\* A launch that registers the job before it creates the process.
StartBackgroundJob_RegistersFirst(command, popen_ok, pgid_ok) ==
    /\ LET job_id == next_job_id
           pgid == IF pgid_ok THEN Pid(job_id) ELSE NoPgid
       IN  /\ next_job_id' = NextJobId(next_job_id)
           /\ jobs' = DictSet(jobs, job_id, NewJob(job_id, pgid, command))
           /\ task_queue' = appendleft(task_queue, job_id)
           /\ proc' = DictSet(proc, job_id, IF popen_ok THEN <<>> ELSE <<KilledCode>>)
           /\ monitor' = DictSet(monitor, job_id, "polling")
           /\ created' = Append(created, job_id)
           /\ last' = Did(IF popen_ok THEN "ok" ELSE "error", <<>>)
    /\ UNCHANGED <<foreground_job, saved_terminal, tty_owner, pc, fg_status,
                   cleanup_todo, jobs_at_cleanup, cleanup_calls>>

\* _execute_background_command from the point where it takes a job id
\* (lines 908-963): the id is taken before Popen; popen_ok says whether
\* the process was created and pgid_ok whether os.getpgid answered.
StartBackgroundJob(command, popen_ok, pgid_ok) ==
    /\ LET job_id == next_job_id
           pgid == IF pgid_ok THEN Pid(job_id) ELSE NoPgid
       IN  /\ next_job_id' = NextJobId(next_job_id)
           /\ IF popen_ok
              THEN /\ jobs' = DictSet(jobs, job_id, NewJob(job_id, pgid, command))
                   /\ task_queue' = appendleft(task_queue, job_id)
                   /\ proc' = DictSet(proc, job_id, <<>>)
                   /\ monitor' = DictSet(monitor, job_id, "polling")
                   /\ created' = Append(created, job_id)
                   /\ last' = Did("ok", <<>>)
              ELSE /\ last' = Did("error", <<>>)
                   /\ UNCHANGED <<jobs, task_queue, proc, monitor, created>>
    /\ UNCHANGED <<foreground_job, saved_terminal, tty_owner, pc, fg_status,
                   cleanup_todo, jobs_at_cleanup, cleanup_calls>>

\* Room for one more job within the bounds of the model.
CanLaunch ==
    /\ next_job_id - FirstJobId < MaxLaunches
    /\ Cardinality(Unfinished) < MaxLive

\* A line "<command> &" at the prompt, as far as the jobs go.
LaunchBackground(command, popen_ok, pgid_ok) ==
    /\ pc = "prompt"
    /\ CanLaunch
    /\ StartBackgroundJob(command, popen_ok, pgid_ok)
    /\ UNCHANGED <<shell_vars, stream_vars, tty_vars>>

\* The operating system: a live process ends with some exit code.
ProcessExits(job_id, code) ==
    /\ pc # "terminated"
    /\ job_id \in DOMAIN proc
    /\ proc[job_id] = <<>>
    /\ proc' = [proc EXCEPT ![job_id] = <<code>>]
    /\ last' = Did("ok", <<>>)
    /\ UNCHANGED <<jobs, task_queue, next_job_id, foreground_job, saved_terminal,
                   tty_owner, monitor, pc, fg_status, cleanup_todo, created,
                   jobs_at_cleanup, cleanup_calls>>
    /\ UNCHANGED <<shell_vars, stream_vars, tty_vars>>

\* monitor(): one iteration whose process.poll() returns an exit code.
MonitorRecordsExit(job_id) ==
    /\ pc # "terminated"
    /\ job_id \in DOMAIN monitor
    /\ monitor[job_id] = "polling"
    /\ proc[job_id] # <<>>
    /\ jobs' = IF job_id \in JobIds THEN MarkDone(job_id, proc[job_id][1]) ELSE jobs
    /\ monitor' = [monitor EXCEPT ![job_id] = "ended"]
    /\ last' = Did("ok", <<>>)
    /\ UNCHANGED <<task_queue, next_job_id, foreground_job, saved_terminal,
                   tty_owner, proc, pc, fg_status, cleanup_todo, created,
                   jobs_at_cleanup, cleanup_calls>>
    /\ UNCHANGED <<shell_vars, stream_vars, tty_vars>>

\* monitor(): one iteration whose poll() returns None and that finds the job
\* stopped: the thread ends.  (An iteration that finds it running sleeps and
\* changes nothing.)
MonitorSeesStopped(job_id) ==
    /\ pc # "terminated"
    /\ job_id \in DOMAIN monitor
    /\ monitor[job_id] = "polling"
    /\ proc[job_id] = <<>>
    /\ job_id \in JobIds /\ jobs[job_id].status = "stopped"
    /\ monitor' = [monitor EXCEPT ![job_id] = "ended"]
    /\ last' = Did("ok", <<>>)
    /\ UNCHANGED <<jobs, task_queue, next_job_id, foreground_job, saved_terminal,
                   tty_owner, proc, pc, fg_status, cleanup_todo, created,
                   jobs_at_cleanup, cleanup_calls>>
    /\ UNCHANGED <<shell_vars, stream_vars, tty_vars>>

(* ------------------------------ fg / bg -------------------------------- *)

\* _handle_job_control_command: the job `fg` or `bg` acts on, NoJob for None.
SelectJob(cmd, args) ==
    IF args = <<>>
    THEN IF cmd = "fg" THEN FirstWithStatus({"running", "stopped"})
                       ELSE FirstWithStatus({"stopped"})
    ELSE parse_job_spec(args[1])

\* A _bring_job_to_foreground that takes a completed job as well.
BringStart_AnyStatus(job_id) ==
    IF job_id \notin JobIds
    THEN /\ last' = Did("fg_error", <<>>)
         /\ UNCHANGED <<foreground_job, pc, fg_status>>
    ELSE /\ foreground_job' = job_id
         /\ fg_status' = jobs[job_id].status
         /\ pc' = "fg_resume"
         /\ last' = Did("ok", <<>>)

\* _bring_job_to_foreground up to self.foreground_job = job_id.  Its own
\* errors are displayed under the label "fg" ("fg_error").
BringStart(job_id) ==
    IF job_id \notin JobIds \/ jobs[job_id].status \in Final
    THEN /\ last' = Did("fg_error", <<>>)
         /\ UNCHANGED <<foreground_job, pc, fg_status>>
    ELSE /\ foreground_job' = job_id
         /\ fg_status' = jobs[job_id].status
         /\ pc' = "fg_resume"
         /\ last' = Did("ok", <<>>)

\* `fg [spec]`, where job_id = SelectJob("fg", words after fg).
FgCommand(job_id) ==
    /\ pc = "prompt"
    /\ IF job_id = NoJob
       THEN /\ last' = Did("error", <<>>)
            /\ UNCHANGED <<foreground_job, pc, fg_status>>
       ELSE BringStart(job_id)
    /\ UNCHANGED <<jobs, task_queue, next_job_id, saved_terminal, tty_owner,
                   proc, monitor, cleanup_todo, created,
                   jobs_at_cleanup, cleanup_calls>>
    /\ UNCHANGED <<shell_vars, stream_vars, tty_vars>>

\* _set_foreground_process_group(pgid), where t says whether tcgetattr and
\* tcsetpgrp succeed: the new owner of the terminal and the new
\* hasattr(self, "_saved_terminal").
set_foreground_process_group(pgid, t) ==
    IF t THEN <<pgid, TRUE>> ELSE <<tty_owner, saved_terminal>>

\* _set_foreground_process_group, lines 1081-1086: the settings read by
\* tcgetattr are kept only if none are kept yet.
save_termios(t) ==
    IF t /\ ~saved_terminal THEN <<terminal>> ELSE saved_termios

\* _bring_job_to_foreground, lines 1318-1330: SIGCONT when the status read
\* at entry was stopped, then the transfer of the terminal to the job's
\* group when it has one.
FgResume ==
    /\ pc = "fg_resume"
    /\ LET job_id == foreground_job
           pgid == jobs[job_id].pgid
       IN  /\ IF fg_status = "stopped"
              THEN \E d \in Deliveries :
                     /\ jobs' = IF send_signal_to_job(job_id, SIGCONT, d)
                                THEN SetStatus(job_id, "running") ELSE jobs
                     /\ last' = Did("ok", SignalAttempts(job_id, SIGCONT, d))
              ELSE /\ last' = Did("ok", <<>>)
                   /\ UNCHANGED jobs
           /\ IF pgid # NoPgid
              THEN \E t \in BOOLEAN :
                     /\ tty_owner' = set_foreground_process_group(pgid, t)[1]
                     /\ saved_terminal' = set_foreground_process_group(pgid, t)[2]
                     /\ saved_termios' = save_termios(t)
                     /\ old_termios' = IF t THEN <<terminal>> ELSE old_termios
              ELSE UNCHANGED <<tty_owner, saved_terminal, tty_vars>>
    /\ pc' = "fg_wait"
    /\ UNCHANGED <<task_queue, next_job_id, foreground_job, proc, monitor,
                   fg_status, cleanup_todo, created,
                   jobs_at_cleanup, cleanup_calls>>
    /\ UNCHANGED <<shell_vars, stream_vars>>

\* A _bring_job_to_foreground that polls the process once and does not wait.
FgWaitReturns_Polled ==
    /\ pc = "fg_wait"
    /\ LET job_id == foreground_job
       IN  /\ tty_owner' = IF jobs[job_id].pgid # NoPgid
                           THEN restore_terminal_control ELSE tty_owner
           /\ terminal' = IF jobs[job_id].pgid # NoPgid
                          THEN restored_termios ELSE terminal
           /\ jobs' = [jobs EXCEPT ![job_id].status = "done",
                                   ![job_id].exit_code = proc[job_id]]
    /\ foreground_job' = NoJob
    /\ pc' = "prompt"
    /\ fg_status' = "none"
    /\ last' = Did("ok", <<>>)
    /\ UNCHANGED <<task_queue, next_job_id, saved_terminal, proc, monitor,
                   cleanup_todo, created,
                   jobs_at_cleanup, cleanup_calls>>
    /\ UNCHANGED <<shell_vars, stream, child, tty_vars>>

\* _bring_job_to_foreground, lines 1331-1349: process.wait() returns.
FgWaitReturns ==
    /\ pc = "fg_wait"
    /\ LET job_id == foreground_job
       IN  /\ proc[job_id] # <<>>
           /\ tty_owner' = IF jobs[job_id].pgid # NoPgid
                           THEN restore_terminal_control ELSE tty_owner
           /\ terminal' = IF jobs[job_id].pgid # NoPgid
                          THEN restored_termios ELSE terminal
           /\ jobs' = MarkDone(job_id, proc[job_id][1])
    /\ foreground_job' = NoJob
    /\ pc' = "prompt"
    /\ fg_status' = "none"
    /\ last' = Did("ok", <<>>)
    /\ UNCHANGED <<task_queue, next_job_id, saved_terminal, proc, monitor,
                   cleanup_todo, created,
                   jobs_at_cleanup, cleanup_calls>>
    /\ UNCHANGED <<shell_vars, stream, child, tty_vars>>

\* A KeyboardInterrupt raised inside _bring_job_to_foreground: `except
\* Exception` does not catch it; execute() does and displays the interrupt.
FgKeyboardInterrupt ==
    /\ pc \in {"fg_resume", "fg_wait"}
    /\ pc' = "prompt"
    /\ fg_status' = "none"
    /\ last' = Did("interrupt", <<>>)
    /\ UNCHANGED <<jobs, task_queue, next_job_id, foreground_job, saved_terminal,
                   tty_owner, proc, monitor, cleanup_todo, created,
                   jobs_at_cleanup, cleanup_calls>>
    /\ UNCHANGED <<shell_vars, stream_vars, tty_vars>>

\* An Exception raised inside the try block of _bring_job_to_foreground.
FgException ==
    /\ pc \in {"fg_resume", "fg_wait"}
    /\ tty_owner' = restore_terminal_control
    /\ terminal' = restored_termios
    /\ foreground_job' = NoJob
    /\ pc' = "prompt"
    /\ fg_status' = "none"
    /\ last' = Did("error", <<>>)
    /\ UNCHANGED <<jobs, task_queue, next_job_id, saved_terminal, proc, monitor,
                   cleanup_todo, created,
                   jobs_at_cleanup, cleanup_calls>>
    /\ UNCHANGED <<shell_vars, stream, child, tty_vars>>

\* A _resume_background_job that signals whatever the status of the job is.
resume_background_job_Unchecked(job_id) ==
    IF job_id \notin JobIds
    THEN /\ last' = Did("error", <<>>)
         /\ UNCHANGED jobs
    ELSE \E d \in Deliveries :
           IF send_signal_to_job(job_id, SIGCONT, d)
           THEN /\ jobs' = SetStatus(job_id, "running")
                /\ last' = Did("ok", SignalAttempts(job_id, SIGCONT, d))
           ELSE /\ last' = Did("error", SignalAttempts(job_id, SIGCONT, d))
                /\ UNCHANGED jobs

\* _resume_background_job
resume_background_job(job_id) ==
    IF job_id \notin JobIds \/ jobs[job_id].status \in Final
    THEN /\ last' = Did("error", <<>>)
         /\ UNCHANGED jobs
    ELSE IF jobs[job_id].status # "stopped"
    THEN /\ last' = Did("ok", <<>>)
         /\ UNCHANGED jobs
    ELSE \E d \in Deliveries :
           IF send_signal_to_job(job_id, SIGCONT, d)
           THEN /\ jobs' = SetStatus(job_id, "running")
                /\ last' = Did("ok", SignalAttempts(job_id, SIGCONT, d))
           ELSE /\ last' = Did("error", SignalAttempts(job_id, SIGCONT, d))
                /\ UNCHANGED jobs

\* `bg [spec]`, where job_id = SelectJob("bg", words after bg).
BgCommand(job_id) ==
    /\ pc = "prompt"
    /\ IF job_id = NoJob
       THEN /\ last' = Did("error", <<>>)
            /\ UNCHANGED jobs
       ELSE resume_background_job(job_id)
    /\ UNCHANGED <<task_queue, next_job_id, foreground_job, saved_terminal,
                   tty_owner, proc, monitor, pc, fg_status, cleanup_todo, created,
                   jobs_at_cleanup, cleanup_calls>>
    /\ UNCHANGED <<shell_vars, stream_vars, tty_vars>>

(* ------------------------- execute(line): steps ------------------------ *)

\* Lines that define and use aliases: definitions (quoted, self-referring,
\* chained, empty, naming a builtin) and lines that start with an alias.
AliasLines ==
    {
      <<"a", "l", "i", "a", "s", " ", "l", "l", "=", "'", "l", "s", " ", "-", "l", "'">>,
      <<"a", "l", "i", "a", "s", " ", "l", "l", "=", "l", "l">>,
      <<"a", "l", "i", "a", "s", " ", "a", "=", "l", "l">>,
      <<"a", "l", "i", "a", "s", " ", "x", "=">>,
      <<"a", "l", "i", "a", "s", " ", "e", "=", "e", "x", "p", "o", "r", "t">>,
      <<"a", "l", "i", "a", "s", " ", "u", "=", "u", "n", "a", "l", "i", "a", "s">>,
      <<"l", "l", " ", "'", "a", " ", "b", "'">>,
      <<"a">>,
      <<"x", " ", "d">>,
      <<"e", " ", "A", "=", "1">>,
      <<"u", " ", "l", "l">>,
      <<"p", "y">>,
      <<"e", "x", "i", "t">>
    }

\* Lines that change the alias table, the alias file and the environment:
\* alias and export commands, some with a bad definition after a good one,
\* unalias, and a configuration reload.
StoreLines ==
    {
      <<"a", "l", "i", "a", "s", " ", "l", "l", "=", "'", "l", "s", " ", "-", "l", "'">>,
      <<"a", "l", "i", "a", "s", " ", "a", "=", "l", "l">>,
      <<"a", "l", "i", "a", "s", " ", "a", "=", "l", "l", " ", "b", "a", "d">>,
      <<"a", "l", "i", "a", "s", " ", "a", "=", "l", "l", " ", "1", "=", "y">>,
      <<"e", "x", "p", "o", "r", "t", " ", "A", "=", "1", " ", "B">>,
      <<"e", "x", "p", "o", "r", "t", " ", "A", "=", "1", " ", "1", "=", "x">>,
      <<"e", "x", "p", "o", "r", "t", " ", "A", "=", "1", " ", "B", "=", "2">>,
      <<"u", "n", "a", "l", "i", "a", "s", " ", "l", "l">>,
      <<"u", "n", "a", "l", "i", "a", "s", " ", "a", " ", "x">>,
      <<"c", "o", "n", "f", "i", "g", "_", "r", "e", "l", "o", "a", "d">>,
      <<"e", "x", "i", "t">>
    }

\* Lines about the working directory: cd to a directory, to a name that
\* cannot be entered, to the previous directory, home and the parent, bare
\* names, assignments, and a few other lines.
DirLines ==
    {
      <<"c", "d", " ", "d">>,
      <<"c", "d", " ", "n">>,
      <<"c", "d", " ", "-">>,
      <<"c", "d">>,
      <<"c", "d", " ", ".", ".">>,
      <<"d">>,
      <<"n">>,
      <<".", ".">>,
      <<"A", "=", "1">>,
      <<"A", "=", "1", " ", "B", "=", "2">>,
      <<"A", "=", "1", " ", "1", "=", "x">>,
      <<"a", "l", "i", "a", "s", "e", "s", "=", "1">>,
      <<"p", "y">>,
      <<"e", "x", "i", "t">>,
      <<" ">>
    }

\* Lines of every rule of the decision order: blank, builtin, script mode
\* and its shortcuts, alias, assignment, change of directory, and commands.
Lines ==
    {
      <<"e", "x", "i", "t">>,
      <<" ">>,
      <<"p", "y">>,
      <<"p", "y", " ", "e", "x", "i", "t">>,
      <<"c", "l", "e", "a", "r">>,
      <<"c", "a", "n", "c", "e", "l">>,
      <<"q", "u", "i", "t">>,
      <<"j", "o", "b", "s">>,
      <<"c", "d", " ", "d">>,
      <<"a", "l", "i", "a", "s", " ", "a", "=", "e", "x", "i", "t">>,
      <<"a">>,
      <<"A", "=", "1">>,
      <<"!", "e", "n", "v">>,
      <<"/", "h", "e", "l", "p">>,
      <<"l", "s">>,
      <<"v", "i", "m">>
    }

\* Lines that run a command: with a trailing &, && or \&, of the streaming
\* set (with and without sudo), of the interactive set, and others.
RunLines ==
    {
      <<"l", "s", " ", "&">>,
      <<"l", "s", " ", "&", "&">>,
      <<"l", "s", " ", "\\", "&">>,
      <<"&">>,
      <<"p", "i", "n", "g", " ", "h">>,
      <<"s", "u", "d", "o", " ", "p", "i", "n", "g", " ", "h">>,
      <<"p", "i", "n", "g", " ", "h", " ", "&">>,
      <<"p", "i", "p", " ", "i">>,
      <<"v", "i", "m">>,
      <<"l", "s">>,
      <<"p", "y">>
    }

\* Lines that the two caches depend on: a command that is not found (its
\* suggestions fill the cache of available commands), alias and PATH
\* changes, the cache clear, changes of directory typed with and without
\* cd, and a command that creates a file.
CacheLines ==
    {
      <<"z", "z">>,
      <<"l", "s">>,
      <<"t", "o", "u", "c", "h", " ", "t">>,
      <<"a", "l", "i", "a", "s", " ", "z", "z", "=", "l", "s">>,
      <<"u", "n", "a", "l", "i", "a", "s", " ", "z", "z">>,
      <<"e", "x", "p", "o", "r", "t", " ", "P", "A", "T", "H", "=", "c">>,
      <<"u", "n", "s", "e", "t", " ", "P", "A", "T", "H">>,
      <<"P", "A", "T", "H", "=", "b", ":", "c">>,
      <<"/", "c", "l", "e", "a", "n", "u", "p", "_", "m", "e", "m", "o", "r", "y">>,
      <<"c", "d", " ", "d">>,
      <<"c", "d", " ", ".", ".">>,
      <<"d">>,
      <<".", ".">>,
      <<"c", "d", " ", "n">>
    }

\* The answers of the environment that make a difference for the line: a
\* failed reload for a reload, a failed write for an alias line, a failed
\* Popen for a background or streaming line; a handler that returns has
\* made its changes, and nothing raises for a blank line.
AnswersMatter(line, reload_ok, w, popen_ok, pgid_ok, raised, done) ==
    /\ reload_ok \/ EndsWith(Strip(line), W_config_reload)
    /\ w = "written" \/ StartsWith(Strip(line), W_alias)
                      \/ StartsWith(Strip(line), W_unalias)
    /\ popen_ok \/ has_background_execution(line)
                \/ should_stream_interactive_command(line)
    /\ pgid_ok \/ has_background_execution(line)
    /\ done \/ raised # "none"
    /\ raised = "none" \/ Strip(line) # <<>>

\* The state of the shell once execute has come back with out, and the job
\* it launched.
Returned(out, popen_ok, pgid_ok) ==
    /\ aliases' = out.aliases
    /\ alias_file' = out.alias_file
    /\ environ' = out.environ
    /\ cwd' = out.cwd
    /\ previous_directory' = out.previous_directory
    /\ script_active' = out.script_active
    /\ awaiting_more' = out.awaiting_more
    /\ eof_absorbed' = FALSE
    /\ available_commands_cache' = out.cache
    /\ dispatched' = Outcome(out)
    /\ IF out.launch # <<>>
       THEN CanLaunch /\ StartBackgroundJob(out.launch, popen_ok, pgid_ok)
       ELSE UNCHANGED job_vars

\* One turn of the loop: execute(line).  After the value "exit", or an
\* exception that leaves execute, the loop is over.
ExecuteLine(line, reload_ok, w, popen_ok, pgid_ok, raised, done) ==
    /\ dispatched.result = "none"
    /\ AnswersMatter(line, reload_ok, w, popen_ok, pgid_ok, raised, done) = TRUE
    /\ Returned(execute_try(ShellState, line, reload_ok, w, popen_ok,
                            raised, done), popen_ok, pgid_ok)
    /\ UNCHANGED <<stream_vars, tty_vars>>

\* A turn in which Popen works and the handler returns.
Execute(line, reload_ok, w) ==
    ExecuteLine(line, reload_ok, w, TRUE, TRUE, "none", TRUE)

(* ----------------------- suspend and interrupt ------------------------- *)

\* _suspend_foreground_job, bound to Ctrl-Z at the prompt.  (When it returns
\* True the binding closes the prompt with event.app.exit(result=False); what
\* run() does with that result is the "error" way out of LoopExits.)
SuspendForeground ==
    /\ pc = "prompt"
    /\ LET job_id == foreground_job
       IN  IF job_id = NoJob
           THEN /\ last' = Did("ok", <<>>)
                /\ UNCHANGED <<jobs, foreground_job, tty_owner, terminal>>
           ELSE IF job_id \notin JobIds
           THEN /\ foreground_job' = NoJob
                /\ last' = Did("ok", <<>>)
                /\ UNCHANGED <<jobs, tty_owner, terminal>>
           ELSE IF jobs[job_id].status # "running"
           THEN /\ last' = Did("ok", <<>>)
                /\ UNCHANGED <<jobs, foreground_job, tty_owner, terminal>>
           ELSE \E d \in Deliveries :
                  IF send_signal_to_job(job_id, SIGTSTP, d)
                  THEN /\ jobs' = SetStatus(job_id, "stopped")
                       /\ tty_owner' = restore_terminal_control
                       /\ terminal' = restored_termios
                       /\ foreground_job' = NoJob
                       /\ last' = Did("ok", SignalAttempts(job_id, SIGTSTP, d))
                  ELSE /\ last' = Did("ok", SignalAttempts(job_id, SIGTSTP, d))
                       /\ UNCHANGED <<jobs, foreground_job, tty_owner, terminal>>
    /\ UNCHANGED <<task_queue, next_job_id, saved_terminal, proc, monitor, pc,
                   fg_status, cleanup_todo, created,
                   jobs_at_cleanup, cleanup_calls>>
    /\ UNCHANGED <<shell_vars, stream, child, tty_vars>>

\* An _interrupt_foreground_job that does not look at the job's status.
InterruptForeground_AnyStatus ==
    /\ pc = "prompt"
    /\ LET job_id == foreground_job
       IN  IF job_id = NoJob
           THEN /\ last' = Did("ok", <<>>)
                /\ UNCHANGED <<foreground_job, tty_owner, terminal>>
           ELSE IF job_id \notin JobIds
           THEN /\ foreground_job' = NoJob
                /\ last' = Did("ok", <<>>)
                /\ UNCHANGED <<tty_owner, terminal>>
           ELSE \E d \in Deliveries :
                  IF send_signal_to_job(job_id, SIGINT, d)
                  THEN /\ tty_owner' = restore_terminal_control
                       /\ terminal' = restored_termios
                       /\ last' = Did("ok", SignalAttempts(job_id, SIGINT, d))
                       /\ UNCHANGED foreground_job
                  ELSE /\ last' = Did("ok", SignalAttempts(job_id, SIGINT, d))
                       /\ UNCHANGED <<foreground_job, tty_owner, terminal>>
    /\ UNCHANGED <<jobs, task_queue, next_job_id, saved_terminal, proc, monitor,
                   pc, fg_status, cleanup_todo, created,
                   jobs_at_cleanup, cleanup_calls>>
    /\ UNCHANGED <<shell_vars, stream, child, tty_vars>>

\* _interrupt_foreground_job, bound to Ctrl-C at the prompt.
InterruptForeground ==
    /\ pc = "prompt"
    /\ LET job_id == foreground_job
       IN  IF job_id = NoJob
           THEN /\ last' = Did("ok", <<>>)
                /\ UNCHANGED <<foreground_job, tty_owner, terminal>>
           ELSE IF job_id \notin JobIds
           THEN /\ foreground_job' = NoJob
                /\ last' = Did("ok", <<>>)
                /\ UNCHANGED <<tty_owner, terminal>>
           ELSE IF jobs[job_id].status # "running"
           THEN /\ last' = Did("ok", <<>>)
                /\ UNCHANGED <<foreground_job, tty_owner, terminal>>
           ELSE \E d \in Deliveries :
                  IF send_signal_to_job(job_id, SIGINT, d)
                  THEN /\ tty_owner' = restore_terminal_control
                       /\ terminal' = restored_termios
                       /\ last' = Did("ok", SignalAttempts(job_id, SIGINT, d))
                       /\ UNCHANGED foreground_job
                  ELSE /\ last' = Did("ok", SignalAttempts(job_id, SIGINT, d))
                       /\ UNCHANGED <<foreground_job, tty_owner, terminal>>
    /\ UNCHANGED <<jobs, task_queue, next_job_id, saved_terminal, proc, monitor,
                   pc, fg_status, cleanup_todo, created,
                   jobs_at_cleanup, cleanup_calls>>
    /\ UNCHANGED <<shell_vars, stream, child, tty_vars>>

(* --------------------- end of the loop: cleanupAll --------------------- *)

\* The ways HybridShell.run leaves its loop: execute() returned "exit"
\* (break), a flushed multi-line block returned "exit" (return), EOFError
\* outside script mode (break), KeyboardInterrupt (break, or the outer
\* except), and any other exception escaping the loop ("error": so ends the
\* prompt call that a key binding closed with event.app.exit(result=False),
\* whose result has no strip()).
LoopExits == {"exit", "block_exit", "eof", "interrupt", "error"}

\* A run() whose cleanup follows the loop, so that `return` passes it by.
RunsFinally_NotOnReturn(cause) == cause # "block_exit"

\* try ... finally: the finally block runs however the try block is left.
RunsFinally(cause) == TRUE

\* HybridShell.run leaves its loop and its `finally` calls
\* _cleanup_all_jobs, which returns at once when there are no jobs and else
\* snapshots list(self.jobs.items()).
LoopEnds(cause) ==
    /\ pc = "prompt"
    /\ cause = "eof" => ~in_script_mode(ShellState)
    /\ IF RunsFinally(cause)
       THEN /\ cleanup_calls' = cleanup_calls + 1
            /\ jobs_at_cleanup' = jobs
            /\ IF JobIds = {}
               THEN /\ pc' = "terminated"
                    /\ cleanup_todo' = <<>>
               ELSE /\ pc' = "cleanup"
                    /\ cleanup_todo' = Ascending(JobIds)
       ELSE /\ pc' = "terminated"
            /\ UNCHANGED <<cleanup_calls, jobs_at_cleanup, cleanup_todo>>
    /\ last' = Did(cause, <<>>)
    /\ UNCHANGED <<jobs, task_queue, next_job_id, foreground_job, saved_terminal,
                   tty_owner, proc, monitor, fg_status, created>>
    /\ UNCHANGED <<shell_vars, stream_vars, tty_vars>>

\* A cleanup that passes over stopped jobs.
CleanupTargets_RunningOnly == {"running"}

\* if status in ["running", "stopped"]
CleanupTargets == {"running", "stopped"}

\* One turn of the for loop up to time.sleep(0.1): the status is read, a
\* running or stopped job is sent SIGTERM.  When the signal is not delivered
\* the job is marked at once; a finished job is passed over.
CleanupSignals ==
    /\ pc = "cleanup"
    /\ cleanup_todo # <<>>
    /\ LET job_id == Head(cleanup_todo)
       IN  IF jobs[job_id].status \notin CleanupTargets
           THEN /\ cleanup_todo' = Tail(cleanup_todo)
                /\ last' = Did("ok", <<>>)
                /\ UNCHANGED <<jobs, pc>>
           ELSE \E d \in Deliveries :
                  IF send_signal_to_job(job_id, SIGTERM, d)
                  THEN /\ pc' = "cleanup_sleep"
                       /\ last' = Did("ok", SignalAttempts(job_id, SIGTERM, d))
                       /\ UNCHANGED <<jobs, cleanup_todo>>
                  ELSE /\ jobs' = MarkDone(job_id, CleanupExitCode)
                       /\ cleanup_todo' = Tail(cleanup_todo)
                       /\ last' = Did("error",
                                      SignalAttempts(job_id, SIGTERM, d))
                       /\ UNCHANGED pc
    /\ UNCHANGED <<task_queue, next_job_id, foreground_job, saved_terminal,
                   tty_owner, proc, monitor, fg_status, created,
                   jobs_at_cleanup, cleanup_calls>>
    /\ UNCHANGED <<shell_vars, stream_vars, tty_vars>>

\* The rest of the turn, after the sleep: poll(), SIGKILL when the process is
\* still alive, then status = "done" and exit_code = -1.  A delivered SIGKILL
\* ends the process.
CleanupMarks ==
    /\ pc = "cleanup_sleep"
    /\ LET job_id == Head(cleanup_todo)
       IN  /\ IF proc[job_id] = <<>>
              THEN \E d \in Deliveries :
                     /\ proc' = IF send_signal_to_job(job_id, SIGKILL, d)
                                THEN [proc EXCEPT ![job_id] = <<KilledCode>>]
                                ELSE proc
                     /\ last' = Did("ok", SignalAttempts(job_id, SIGKILL, d))
              ELSE /\ last' = Did("ok", <<>>)
                   /\ UNCHANGED proc
           /\ jobs' = MarkDone(job_id, CleanupExitCode)
    /\ cleanup_todo' = Tail(cleanup_todo)
    /\ pc' = "cleanup"
    /\ UNCHANGED <<task_queue, next_job_id, foreground_job, saved_terminal,
                   tty_owner, monitor, fg_status, created,
                   jobs_at_cleanup, cleanup_calls>>
    /\ UNCHANGED <<shell_vars, stream_vars, tty_vars>>

\* _cleanup_all_jobs returns and the session is over.
CleanupReturns ==
    /\ pc = "cleanup"
    /\ cleanup_todo = <<>>
    /\ pc' = "terminated"
    /\ last' = Did("ok", <<>>)
    /\ UNCHANGED <<jobs, task_queue, next_job_id, foreground_job, saved_terminal,
                   tty_owner, proc, monitor, fg_status, cleanup_todo, created,
                   jobs_at_cleanup, cleanup_calls>>
    /\ UNCHANGED <<shell_vars, stream_vars, tty_vars>>

(* --------------------------- specification ----------------------------- *)

Next ==
    \/ \E command \in Commands, popen_ok, pgid_ok \in BOOLEAN :
           LaunchBackground(command, popen_ok, pgid_ok)
    \/ \E job_id \in DOMAIN proc, code \in ExitCodes : ProcessExits(job_id, code)
    \/ \E job_id \in DOMAIN monitor : MonitorRecordsExit(job_id)
    \/ \E job_id \in DOMAIN monitor : MonitorSeesStopped(job_id)
    \/ \E job_id \in {SelectJob("fg", args) : args \in ArgLists} :
           FgCommand(job_id)
    \/ FgResume
    \/ FgWaitReturns
    \/ FgKeyboardInterrupt
    \/ FgException
    \/ \E job_id \in {SelectJob("bg", args) : args \in ArgLists} :
           BgCommand(job_id)
    \/ SuspendForeground
    \/ InterruptForeground
    \/ \E cause \in LoopExits : LoopEnds(cause)
    \/ CleanupSignals
    \/ CleanupMarks
    \/ CleanupReturns

Spec == Init /\ [][Next]_vars

\* A line "<command> &" at the prompt while other jobs are still unfinished.
LaunchAlongside(command, popen_ok, pgid_ok) ==
    /\ pc = "prompt"
    /\ next_job_id - FirstJobId < MaxLaunches
    /\ Cardinality(Unfinished) < MaxAlive
    /\ StartBackgroundJob(command, popen_ok, pgid_ok)
    /\ UNCHANGED <<shell_vars, stream_vars, tty_vars>>

\* Job control while the loop runs: launches, the processes and their
\* monitors, `fg`, `bg`, Ctrl-Z and Ctrl-C.
JobNext ==
    \/ \E command \in Commands, popen_ok, pgid_ok \in BOOLEAN :
           LaunchAlongside(command, popen_ok, pgid_ok)
    \/ \E job_id \in DOMAIN proc, code \in ExitCodes : ProcessExits(job_id, code)
    \/ \E job_id \in DOMAIN monitor : MonitorRecordsExit(job_id)
    \/ \E job_id \in DOMAIN monitor : MonitorSeesStopped(job_id)
    \/ \E job_id \in {SelectJob("fg", args) : args \in ArgLists} :
           FgCommand(job_id)
    \/ FgResume
    \/ FgWaitReturns
    \/ FgKeyboardInterrupt
    \/ FgException
    \/ \E job_id \in {SelectJob("bg", args) : args \in ArgLists} :
           BgCommand(job_id)
    \/ SuspendForeground
    \/ InterruptForeground

JobSpec == Init /\ [][JobNext]_vars

\* The command dispatcher on its own, with no job in the table, given
\* lines that define and use aliases; the alias file takes every write.
AliasNext == \E line \in AliasLines : Execute(line, TRUE, "written")

AliasSpec == Init /\ [][AliasNext]_vars

\* The command dispatcher on its own, given lines that change the alias
\* table and the environment, with writes of the alias file and reloads of
\* the configuration that may fail.
StoreNext ==
    \E line \in StoreLines, reload_ok \in BOOLEAN, w \in Writes :
        Execute(line, reload_ok, w)

StoreSpec == Init /\ [][StoreNext]_vars

\* Lines whose first word is export, unalias or files, or only begins
\* with one of them, among lines that change the aliases and the environment.
BuiltinLines ==
    {
      <<"e", "x", "p", "o", "r", "t", " ", "A", "=", "1">>,
      <<"e", "x", "p", "o", "r", "t", " ", "B", "=", "1">>,
      <<"e", "x", "p", "o", "r", "t", "f", "s">>,
      <<"e", "x", "p", "o", "r", "t", "f", "s", " ", "A", "=", "2">>,
      <<"f", "i", "l", "e", "s">>,
      <<"f", "i", "l", "e", "s", "y", "n", "c">>,
      <<"u", "n", "a", "l", "i", "a", "s", " ", "a">>,
      <<"u", "n", "a", "l", "i", "a", "s", "x">>,
      <<"u", "n", "a", "l", "i", "a", "s", "x", " ", "a">>,
      <<"a", "l", "i", "a", "s", " ", "a", "=", "l", "s">>,
      <<"a", "l", "i", "a", "s", " ", "b", "=", "l", "s">>,
      <<"u", "n", "s", "e", "t", " ", "A">>,
      <<"l", "s">>
    }

\* The shell as a user types builtins and commands named like them.
BuiltinNext == \E line \in BuiltinLines : Execute(line, TRUE, "written")

BuiltinSpec == Init /\ [][BuiltinNext]_vars

\* Settings of the terminal that processes choose between.
TerminalSettings == {Cooked, Cbreak}

\* A command run at the prompt with the terminal of the shell as its
\* standard input (subprocess.run passes no stdin) changes the settings of
\* the terminal, as `stty` does.
CommandSetsTerminal(settings) ==
    /\ pc = "prompt"
    /\ tty_owner = ShellGroup
    /\ terminal # settings
    /\ terminal' = settings
    /\ UNCHANGED <<job_vars, shell_vars, stream, child, tty_vars>>

\* The job in the foreground changes the settings of the terminal it was
\* given, as an editor does.
JobSetsTerminal(settings) ==
    /\ pc = "fg_wait"
    /\ jobs[foreground_job].pgid # NoPgid
    /\ tty_owner = jobs[foreground_job].pgid
    /\ proc[foreground_job] = <<>>
    /\ terminal # settings
    /\ terminal' = settings
    /\ UNCHANGED <<job_vars, shell_vars, stream, child, tty_vars>>

\* Foreground runs one after the other, with commands and jobs that change
\* the settings of the terminal.
TtyNext ==
    \/ \E command \in Commands, popen_ok, pgid_ok \in BOOLEAN :
           LaunchBackground(command, popen_ok, pgid_ok)
    \/ \E job_id \in DOMAIN proc, code \in ExitCodes : ProcessExits(job_id, code)
    \/ \E job_id \in DOMAIN monitor : MonitorRecordsExit(job_id)
    \/ \E job_id \in {SelectJob("fg", args) : args \in ArgLists} :
           FgCommand(job_id)
    \/ FgResume
    \/ FgWaitReturns
    \/ FgException
    \/ \E settings \in TerminalSettings : CommandSetsTerminal(settings)
    \/ \E settings \in TerminalSettings : JobSetsTerminal(settings)

TtySpec == Init /\ [][TtyNext]_vars

\* The command dispatcher on its own, given lines about the working
\* directory one after the other.
DirNext == \E line \in DirLines : Execute(line, TRUE, "written")

DirSpec == Init /\ [][DirNext]_vars

\* The shell as a user types lines of every rule, with handlers that raise.
LineNext ==
    \E line \in Lines, raised \in Raises, done \in BOOLEAN :
        ExecuteLine(line, TRUE, "written", TRUE, TRUE, raised, done)

LineSpec == Init /\ [][LineNext]_vars

\* The shell as a user runs commands, with processes that cannot be created.
RunNext ==
    \E line \in RunLines, popen_ok \in BOOLEAN, pgid_ok \in BOOLEAN :
        ExecuteLine(line, TRUE, "written", popen_ok, pgid_ok, "none", TRUE)

RunSpec == Init /\ [][RunNext]_vars

\* The shell as a user changes aliases, PATH and the working directory.
CacheNext == \E line \in CacheLines : Execute(line, TRUE, "written")

CacheSpec == Init /\ [][CacheNext]_vars

(* --------------------- streaming: stream_shell_command ----------------- *)

\* process.send_signal(SIGINT), and process.terminate() when that raises:
\* the calls made, each with whether it succeeded.
interrupt_process(sig_ok, term_ok) ==
    IF sig_ok THEN << <<SIGINT, TRUE>> >>
    ELSE << <<SIGINT, FALSE>>, <<SIGTERM, term_ok>> >>

\* A finally clause that is skipped when an exception is on its way out.
restore_terminal_UnlessRaising(st) ==
    IF st.raising THEN terminal
    ELSE IF st.input_enabled /\ st.old_term_settings # <<>>
    THEN st.old_term_settings[1]
    ELSE terminal

\* The finally clause (lines 231-233): the settings of the terminal after it.
restore_terminal(st) ==
    IF st.input_enabled /\ st.old_term_settings # <<>>
    THEN st.old_term_settings[1]
    ELSE terminal

\* stream_shell_command is entered with a process whose stdout is a pipe
\* (lines 75-97): with input enabled the settings are saved and the
\* terminal is put into cbreak mode.
StreamEnter(input_enabled) ==
    /\ stream.pc \in {"idle", "returned", "raised"}
    /\ stream' = [NoStream EXCEPT
                     !.pc = "polling",
                     !.input_enabled = input_enabled,
                     !.old_term_settings =
                         IF input_enabled THEN <<terminal>> ELSE <<>>]
    /\ terminal' = IF input_enabled THEN Cbreak ELSE terminal
    /\ child' = [NoChild EXCEPT !.alive = TRUE]
    /\ UNCHANGED <<job_vars, shell_vars, tty_vars>>

\* The process writes a chunk of output.
ChildWrites ==
    /\ child.alive
    /\ child.written < MaxChunks
    /\ child' = [child EXCEPT !.pending = @ + 1, !.written = @ + 1]
    /\ UNCHANGED <<job_vars, shell_vars, tty_vars, stream, terminal>>

\* The process ends, by itself or by a signal.
ChildExits ==
    /\ child.alive
    /\ child' = [child EXCEPT !.alive = FALSE]
    /\ UNCHANGED <<job_vars, shell_vars, tty_vars, stream, terminal>>

\* One turn of the loop that reads a chunk of output (lines 119-140).
StreamReadsChunk ==
    /\ stream.pc = "polling"
    /\ child.pending > 0
    /\ stream' = [stream EXCEPT !.chunks = @ + 1]
    /\ child' = [child EXCEPT !.pending = @ - 1]
    /\ UNCHANGED <<job_vars, shell_vars, tty_vars, terminal>>

\* One turn of the loop that forwards input without an interrupt byte
\* (lines 142-160).
StreamForwardsInput ==
    /\ stream.pc = "polling"
    /\ stream.input_enabled
    /\ child.input < MaxChunks
    /\ child' = [child EXCEPT !.input = @ + 1]
    /\ UNCHANGED <<job_vars, shell_vars, tty_vars, stream, terminal>>

\* One turn of the loop that reads the interrupt byte (lines 149-155): the
\* process is signalled and the loop is left; when both calls raise, the
\* exception of terminate() is on its way out.
StreamReadsInterruptByte(sig_ok, term_ok) ==
    /\ stream.pc = "polling"
    /\ stream.input_enabled
    /\ child' = [child EXCEPT !.sent = @ \o interrupt_process(sig_ok, term_ok)]
    /\ stream' = IF sig_ok \/ term_ok
                 THEN [stream EXCEPT !.cancelled = TRUE, !.pc = "summary"]
                 ELSE [stream EXCEPT !.cancelled = TRUE, !.pc = "finally",
                                     !.raising = TRUE]
    /\ UNCHANGED <<job_vars, shell_vars, tty_vars, terminal>>

\* One turn of the loop that finds the process ended and nothing left to
\* read (lines 125-127 and 162-166).
StreamSeesExit ==
    /\ stream.pc = "polling"
    /\ ~child.alive
    /\ child.pending = 0
    /\ stream' = [stream EXCEPT !.pc = "summary"]
    /\ UNCHANGED <<job_vars, shell_vars, tty_vars, terminal, child>>

\* After the loop (lines 168-219): process.wait(timeout=0.1), or poll()
\* when it times out, and the summary.
StreamSummary ==
    /\ stream.pc = "summary"
    /\ stream' = [stream EXCEPT
                     !.exit_code = IF child.alive THEN <<>> ELSE <<0>>,
                     !.pc = "finally"]
    /\ UNCHANGED <<job_vars, shell_vars, tty_vars, terminal, child>>

\* Ctrl-C raises KeyboardInterrupt in the try statement, in the loop or
\* after it.
StreamKeyboardInterrupt ==
    /\ stream.pc \in {"polling", "summary"}
    /\ stream' = [stream EXCEPT !.pc = "except"]
    /\ UNCHANGED <<job_vars, shell_vars, tty_vars, terminal, child>>

\* The except clause (lines 221-229): the failure of both calls is passed
\* over.
StreamExceptClause(sig_ok, term_ok) ==
    /\ stream.pc = "except"
    /\ child' = [child EXCEPT !.sent = @ \o interrupt_process(sig_ok, term_ok)]
    /\ stream' = [stream EXCEPT !.cancelled = TRUE, !.pc = "finally"]
    /\ UNCHANGED <<job_vars, shell_vars, tty_vars, terminal>>

\* Another exception is raised in the try statement (select, the display).
StreamException ==
    /\ stream.pc \in {"polling", "summary"}
    /\ stream' = [stream EXCEPT !.pc = "finally", !.raising = TRUE]
    /\ UNCHANGED <<job_vars, shell_vars, tty_vars, terminal, child>>

\* The finally clause, and then the exception on its way out, if any.
StreamFinally ==
    /\ stream.pc = "finally"
    /\ terminal' = restore_terminal(stream)
    /\ stream' = [stream EXCEPT
                     !.pc = IF stream.raising THEN "raised" ELSE "after"]
    /\ UNCHANGED <<job_vars, shell_vars, tty_vars, child>>

\* After the try statement (lines 235-263): process.wait(timeout=1) when no
\* exit code is known, the output panel, and the return.
StreamReturns ==
    /\ stream.pc = "after"
    /\ stream' = [stream EXCEPT
                     !.exit_code = IF @ # <<>> \/ child.alive THEN @ ELSE <<0>>,
                     !.pc = "returned"]
    /\ UNCHANGED <<job_vars, shell_vars, tty_vars, terminal, child>>

\* The steps stream_shell_command takes by itself.
StreamStep ==
    \/ StreamReadsChunk
    \/ StreamSeesExit
    \/ StreamSummary
    \/ \E sig_ok \in BOOLEAN, term_ok \in BOOLEAN :
           StreamExceptClause(sig_ok, term_ok)
    \/ StreamFinally
    \/ StreamReturns

StreamNext ==
    \/ \E input_enabled \in BOOLEAN : StreamEnter(input_enabled)
    \/ ChildWrites
    \/ ChildExits
    \/ StreamForwardsInput
    \/ \E sig_ok \in BOOLEAN, term_ok \in BOOLEAN :
           StreamReadsInterruptByte(sig_ok, term_ok)
    \/ StreamKeyboardInterrupt
    \/ StreamException
    \/ StreamStep

StreamSpec == Init /\ [][StreamNext]_vars

\* The call goes on while it has a step to take.
StreamFairSpec == StreamSpec /\ WF_vars(StreamStep)

(* ------------------------------ properties ----------------------------- *)

\* The latest step made a call for signal sig that the system accepted.
Delivered(l, sig) ==
    /\ l.sigs # <<>>
    /\ l.sigs[Len(l.sigs)][2] = sig
    /\ l.sigs[Len(l.sigs)][4]

\* The primary thread is inside _bring_job_to_foreground.
InForeground == pc \in {"fg_resume", "fg_wait"}

C2_FinalExitCodeStays ==
    [][\A j \in JobIds :
         jobs[j].status \in Final =>
           j \in DOMAIN jobs' /\ jobs'[j].exit_code = jobs[j].exit_code]_vars

\* C3: the ids of the jobs created are strictly increasing in launch order
\* (so none is assigned twice), whether or not launches in between failed
\* and whether or not earlier jobs have completed; the id of the next launch
\* is above them all.
C3_IdsStrictlyIncreasing ==
    /\ \A i, k \in 1..Len(created) : i < k => created[i] < created[k]
    /\ \A i \in 1..Len(created) : created[i] < next_job_id

\* C3 witness: two jobs have been created and the earlier one has completed.
C3_Witness ==
    /\ Len(created) = 2
    /\ jobs[created[1]].status = "done"
    /\ jobs[created[2]].status = "running"

C5_ForegroundRefMeansForeground ==
    (foreground_job # NoJob /\ pc = "prompt") =>
      /\ foreground_job \in JobIds
      /\ jobs[foreground_job].status = "running"
      /\ jobs[foreground_job].pgid # NoPgid
      /\ tty_owner = jobs[foreground_job].pgid

\* C6: when _bring_job_to_foreground has handed the terminal to the job's
\* process group, the terminal is the shell's again once the primary thread
\* is out of it, whichever way it leaves: the wait returns, an Exception, or
\* a KeyboardInterrupt.
C6_TerminalBackOnReturn ==
    [][(/\ pc = "fg_wait"
        /\ jobs[foreground_job].pgid # NoPgid
        /\ tty_owner = jobs[foreground_job].pgid
        /\ pc' # "fg_wait")
       => tty_owner' = ShellGroup]_vars

\* Reverse of a sequence.
Reverse(s) == [i \in 1..Len(s) |-> s[Len(s) + 1 - i]]

\* C7: the selection sequence is the jobs created, most recent first; `%+`
\* and `+` name the most recently launched job, `%-` and `-` the one launched
\* just before it, and `jobs` lists the jobs in that same order.
C7_MostRecentFirst ==
    /\ task_queue = Reverse(created)
    /\ show_jobs_list = task_queue
    /\ Len(created) >= 1 =>
         /\ parse_job_spec(<<"%", "+">>) = created[Len(created)]
         /\ parse_job_spec(<<"+">>) = created[Len(created)]
    /\ Len(created) >= 2 =>
         /\ parse_job_spec(<<"%", "-">>) = created[Len(created) - 1]
         /\ parse_job_spec(<<"-">>) = created[Len(created) - 1]

\* C7 witness: two jobs were launched, so `%+` and `%-` name different jobs.
C7_Witness ==
    /\ Len(created) = 2
    /\ parse_job_spec(<<"%", "+">>) = created[2]
    /\ parse_job_spec(<<"%", "-">>) = created[1]

\* C8: no step removes a job from the job table or from the selection
\* sequence, or changes its id or its command.
C8_JobsStayListed ==
    [][\A j \in JobIds :
         /\ j \in DOMAIN jobs'
         /\ jobs'[j].id = jobs[j].id
         /\ jobs'[j].command = jobs[j].command
         /\ (\E i \in 1..Len(task_queue) : task_queue[i] = j)
              => \E k \in 1..Len(task_queue') : task_queue'[k] = j]_vars

\* C8 witness: the session is over, cleanupAll has marked a job and a monitor
\* has recorded the exit of another, and both are still listed.
C8_Witness ==
    /\ pc = "terminated"
    /\ \E j, k \in JobIds :
         /\ jobs[j].exit_code = <<CleanupExitCode>>
         /\ jobs[k].exit_code \notin {<<>>, <<CleanupExitCode>>}
         /\ \E i \in 1..Len(task_queue) : task_queue[i] = j
         /\ \E i \in 1..Len(task_queue) : task_queue[i] = k

AskedIds == NoJob .. (FirstJobId + MaxLaunches)

\* C10: _resume_background_job changes a status only when the job exists, is
\* stopped and SIGCONT is delivered, and then the status becomes running; in
\* every other case the job table is as before.  It never touches the
\* foreground reference or the terminal, and the primary thread is back at
\* the prompt at once, whether or not the process has exited.
C10_ResumeBackground ==
    [][\A job_id \in AskedIds :
         BgCommand(job_id) =>
           /\ IF /\ job_id \in JobIds
                 /\ jobs[job_id].status = "stopped"
                 /\ Delivered(last', SIGCONT)
              THEN jobs' = [jobs EXCEPT ![job_id].status = "running"]
              ELSE jobs' = jobs
           /\ foreground_job' = foreground_job
           /\ tty_owner' = tty_owner
           /\ pc' = "prompt"]_vars

\* C10 witness: SIGCONT was just delivered by `bg` to a stopped job: the job
\* is running, its process has not exited and the shell is at the prompt.
C10_Witness ==
    /\ Delivered(last, SIGCONT)
    /\ pc = "prompt"
    /\ jobs[last.sigs[1][1]].status = "running"
    /\ proc[last.sigs[1][1]] = <<>>

\* C11: _bring_job_to_foreground on an id that is not in the table, or on a
\* job that is done or failed, displays an error, sends no signal, leaves the
\* job table, the foreground reference and the terminal as they were, and
\* the primary thread is back at the prompt without waiting.
C11_ForegroundRefused ==
    [][\A job_id \in AskedIds \ {NoJob} :
         (/\ FgCommand(job_id)
          /\ (job_id \notin JobIds \/ jobs[job_id].status \in Final))
         => /\ last' = Did("fg_error", <<>>)
            /\ pc' = "prompt"
            /\ UNCHANGED <<jobs, task_queue, foreground_job, saved_terminal,
                           tty_owner, proc, monitor>>]_vars

\* C11 witness: `fg` was just refused for a completed job: the error is
\* displayed, nothing is in the foreground and the shell is at the prompt.
C11_Witness ==
    /\ last = Did("fg_error", <<>>)
    /\ pc = "prompt"
    /\ foreground_job = NoJob
    /\ \E j \in JobIds : jobs[j].status = "done"

\* C12: _bring_job_to_foreground on a running or stopped job goes on to wait
\* for the process whether or not the terminal was handed over, and it
\* returns (leaves without an exception) only once the process has exited;
\* the job is then done with the exit code of the process.
C12_ForegroundWaitsForExit ==
    [][/\ (pc = "fg_resume" /\ pc' # "fg_resume" /\ last'.result = "ok")
          => pc' = "fg_wait"
       /\ (pc = "fg_wait" /\ pc' # "fg_wait" /\ last'.result = "ok")
          => /\ proc[foreground_job] # <<>>
             /\ jobs'[foreground_job].status = "done"
             /\ jobs'[foreground_job].exit_code = proc[foreground_job]]_vars

\* C12 witness: a job with a process group was waited for in the foreground
\* although no transfer of the terminal ever succeeded, and the wait has
\* returned: the job is done with the exit code of its process, recorded by
\* the primary thread (the monitor has not recorded anything yet).
C12_Witness ==
    /\ pc = "prompt"
    /\ last = Did("ok", <<>>)
    /\ foreground_job = NoJob
    /\ ~saved_terminal
    /\ \E j \in JobIds :
         /\ jobs[j].pgid # NoPgid
         /\ jobs[j].status = "done"
         /\ proc[j] # <<>>
         /\ jobs[j].exit_code = proc[j]
         /\ monitor[j] = "polling"

\* _cleanup_all_jobs has returned after going through a table with jobs.
CleanupDone == pc = "terminated" /\ jobs_at_cleanup # <<>>

\* The jobs that were running or stopped when _cleanup_all_jobs started.
UnfinishedAtCleanup ==
    {j \in DOMAIN jobs_at_cleanup :
       jobs_at_cleanup[j].status \in {"running", "stopped"}}

\* SIGKILL is sent only in a turn in which SIGTERM was delivered to the same
\* job and poll() then found its process alive.
KillOnlyAfterTerminate ==
    /\ (pc # "cleanup_sleep" /\ pc' = "cleanup_sleep")
         => /\ Delivered(last', SIGTERM)
            /\ last'.sigs[1][1] = Head(cleanup_todo')
    /\ (last'.sigs # <<>> /\ last'.sigs[1][2] = SIGKILL)
         => /\ pc = "cleanup_sleep"
            /\ last'.sigs[1][1] = Head(cleanup_todo)
            /\ proc[Head(cleanup_todo)] = <<>>

\* No failure while cleaning one job stops _cleanup_all_jobs: whatever the
\* signals did, its next step can be taken.
CleanupGoesOn ==
    /\ pc = "cleanup" => ENABLED (CleanupSignals \/ CleanupReturns)
    /\ pc = "cleanup_sleep" => ENABLED CleanupMarks

C14_CleanupCalledOnce ==
    /\ pc = "terminated" => cleanup_calls = 1
    /\ pc \in {"cleanup", "cleanup_sleep"} => cleanup_calls = 1
    /\ pc \in {"prompt", "fg_resume", "fg_wait"} => cleanup_calls = 0

\* C14 witness: the loop was just left by the `return` of a flushed block
\* that gave "exit", with jobs in the table, and the cleanup is under way.
C14_Witness ==
    /\ last = Did("block_exit", <<>>)
    /\ pc = "cleanup"
    /\ cleanup_calls = 1
    /\ cleanup_todo # <<>>

\* Job specs the resolution is asked about: those of SpecInputs and further
\* plain, signed, empty and unknown forms.
JobSpecs ==
    SpecInputs \cup { <<"+">>, <<"%", "-">>, <<"2">>, <<"0">>, <<"1", "0">>,
                      <<"+", "1">>, <<"-", "1">>, <<"%", "-", "1">>,
                      <<"%", "%", "1">>, <<"x">>, <<>> }

\* The resolution as the specification words it: only a plain run of decimal
\* digits, after an optional %, names a job by number.
PlainResolution(spec) ==
    IF spec = <<"+">> \/ spec = <<"%", "+">>
    THEN IF task_queue # <<>> THEN task_queue[1] ELSE NoJob
    ELSE IF spec = <<"-">> \/ spec = <<"%", "-">>
    THEN IF Len(task_queue) > 1 THEN task_queue[2] ELSE NoJob
    ELSE LET rest == IF spec # <<>> /\ Head(spec) = "%" THEN Tail(spec) ELSE spec
         IN  IF AllDigits(rest) /\ DigitsValue(rest) \in JobIds
             THEN DigitsValue(rest)
             ELSE NoJob

\* C15: a job spec resolves to the head of the selection sequence for %+ and
\* +, to its second element for %- and -, to job N for %N and N with N a
\* plain decimal number of a job in the table, and to no job for every other
\* spec, signed numbers such as %+1 included.
C15_JobSpecResolution ==
    \A spec \in JobSpecs : parse_job_spec(spec) = PlainResolution(spec)

\* The first token of a line that can be split and is not blank.
FirstToken(line) ==
    LET split == shlex_split(line)
    IN  IF split.ok /\ split.tokens # <<>> THEN <<split.tokens[1]>> ELSE <<>>

\* In state st no rule before the alias expansion takes the line: it is no
\* literal builtin, ! command or script toggle, script mode is off, and it
\* is no alias, unalias, export, unset or assignment line.
ReachesExpansion(st, line) ==
    LET normalized == Strip(line)
    IN  /\ normalized # <<>>
        /\ normalized \notin {W_help, W_config_reload, <<"/">> \o W_config_reload,
                              W_cleanup_memory}
        /\ ~StartsWith(line, <<"!">>)
        /\ ~handle_script_commands(st, normalized)[1]
        /\ ~st.script_active
        /\ ~handle_alias_management(st, normalized, "written")[1]
        /\ ~handle_export_command(st, normalized)[1]
        /\ ~handle_unset_command(st, normalized)[1]
        /\ ~handle_assignment_only(st, normalized)[1]

\* The line starts with the name of an alias of the table.
StartsWithAlias(table, line) ==
    FirstToken(line) # <<>> /\ FirstToken(line)[1] \in Keys(table)

\* The value of the alias a line starts with, followed by the line's other
\* tokens, re-quoted.
ValueThenArguments(table, line) ==
    LET tokens == shlex_split(line).tokens
    IN  Strip(Get(table, tokens[1])[1] \o SP
              \o Join([i \in 1..(Len(tokens) - 1) |-> shlex_quote(tokens[i + 1])],
                      SP))

\* C16: a line that starts with the name of an alias, and that no earlier
\* rule takes, is dispatched as the alias value followed by the line's other
\* arguments, and the first token of that line is not expanded again.
C16_AliasExpandedOnce ==
    [][\A line \in AliasLines :
         (/\ Execute(line, TRUE, "written")
          /\ ReachesExpansion(ShellState, line)
          /\ StartsWithAlias(aliases, line))
         => dispatched' = Outcome(dispatch_expanded(
                              ShellState, ValueThenArguments(aliases, line)))]_vars

\* The handlers of the rules between the script rules and the alias
\* expansion: alias management, export, unset and pure assignment.
EarlyRoutes == {"alias", "unalias", "export", "unset", "assignment"}

\* C17: when a line that reaches the alias expansion starts with an alias
\* and its expansion is an alias, unalias, export, unset or assignment line,
\* the line goes to the same handler, and leaves the same alias table, alias
\* file and environment, as the expanded line typed directly.
C17_ExpandedLineReclassified ==
    [][\A line \in AliasLines :
         LET typed == execute(ShellState, expand_alias(aliases, line),
                              TRUE, "written")
         IN  (/\ Execute(line, TRUE, "written")
              /\ ReachesExpansion(ShellState, line)
              /\ StartsWithAlias(aliases, line)
              /\ typed.route \in EarlyRoutes)
             => /\ dispatched'.route = typed.route
                /\ aliases' = typed.aliases
                /\ alias_file' = typed.alias_file
                /\ environ' = typed.environ]_vars

\* C18: the alias file holds the alias table: what _load_aliases reads from
\* it is the table in memory, after every alias and unalias command, so
\* that a reload of the configuration leaves the table as it is.
C18_AliasFileIsTable == SameDict(load_aliases(alias_file), aliases)

\* The line is an `alias` or `export` command one of whose definitions has
\* no = or a name that is no identifier.
HasBadDefinition(line) ==
    LET split == shlex_split(line)
        tokens == split.tokens
    IN  /\ split.ok
        /\ Len(tokens) > 1
        /\ tokens[1] \in {W_alias, W_export}
        /\ \E i \in 2..Len(tokens) :
               \/ ~Contains(tokens[i], "=")
               \/ ~is_valid_identifier(SplitOnce(tokens[i], "=")[1])

\* C19: an alias or export command with a bad definition reports an error
\* and changes neither the alias table, the alias file nor the environment,
\* whatever valid definitions come before the bad one.
C19_BadDefinitionChangesNothing ==
    [][\A line \in StoreLines, reload_ok \in BOOLEAN, w \in Writes :
         (Execute(line, reload_ok, w) /\ HasBadDefinition(line))
         => /\ dispatched'.error
            /\ dispatched'.route \in {"alias", "export"}
            /\ UNCHANGED <<aliases, alias_file, environ>>]_vars

\* C19 witness: `alias a=ll bad` was refused after `alias ll='ls -l'` was
\* taken, and the table has ll and no a.
C19_Witness ==
    /\ dispatched.error
    /\ dispatched.route = "alias"
    /\ FirstToken(dispatched.command) = <<W_alias>>
    /\ HasBadDefinition(dispatched.command)
    /\ Keys(aliases) = { <<"l", "l">> }
    /\ SameDict(load_aliases(alias_file), aliases)

\* The line is a cd command (no shell operator in it) whose target, in the
\* present state, is no directory that can be entered.
CdCannotEnter(line) ==
    LET normalized == Strip(line)
    IN  /\ normalized = W_cd \/ StartsWith(normalized, W_cd \o SP)
        /\ ~has_shell_operator(line)
        /\ cd_target(ShellState, Strip(SubSeq(normalized, 4, Len(normalized))))
               \notin Dirs

\* C20: a cd whose target cannot be entered reports an error, leaves the
\* working directory and previous_directory as they were, and execute returns
\* as after any other line (no exit, nothing raised).
C20_FailedCdChangesNothing ==
    [][\A line \in DirLines :
         (/\ Execute(line, TRUE, "written")
          /\ ~script_active
          /\ CdCannotEnter(line))
         => /\ dispatched'.route = "cd"
            /\ dispatched'.error
            /\ dispatched'.result = "none"
            /\ UNCHANGED <<cwd, previous_directory>>]_vars

\* C20 witness: after `cd d` from the home directory, `cd n` was refused
\* and the shell is still in d with the home directory as previous one.
C20_Witness ==
    /\ dispatched.route = "cd"
    /\ dispatched.error
    /\ dispatched.command = W_cd \o SP \o <<"n">>
    /\ cwd = Append(Home, <<"d">>)
    /\ previous_directory = Home

(* ------------------------ execute: the try statement ------------------- *)

\* C21: whichever line comes next and however its handler ends, execute lets
\* no exception and no keyboard interrupt out: when a handler raises, the
\* failure is reported and no signal is returned.  The signal "exit" is
\* returned only when script mode is off, no rule before the alias expansion
\* takes the line, and the expanded, trimmed line is exactly exit.
C21_ExecuteCatches ==
    \A line \in Lines, raised \in Raises, done \in BOOLEAN :
        LET out == execute_try(ShellState, line, TRUE, "written", TRUE,
                               raised, done)
        IN  /\ out.result \in {"none", "exit"}
            /\ (raised # "none" /\ Strip(line) # <<>>)
                   => out.result = "none" /\ (out.error \/ out.interrupt)
            /\ out.result = "exit"
                   => /\ ~script_active
                      /\ ReachesExpansion(ShellState, line)
                      /\ Strip(expand_alias(aliases, line)) = W_exit

\* A handler has raised KeyboardInterrupt after an alias for exit was
\* defined, and the loop goes on.
C21_Witness ==
    /\ dispatched.interrupt
    /\ dispatched.result = "none"
    /\ Get(aliases, <<"a">>) = <<W_exit>>

(* --------------------- interactive dispatch: & lines ------------------- *)

\* The line ends in one & that no second & and no backslash precedes.
EndsInSingleAmpersand(line) ==
    LET stripped == RStrip(line)
        n == Len(stripped)
    IN  /\ n >= 1
        /\ stripped[n] = "&"
        /\ n >= 2 => stripped[n - 1] \notin {"&", "\\"}

\* The base command of the line, after an optional sudo, is of the
\* streaming set.
BaseCommandStreams(line) ==
    LET parts == Words(line)
    IN  /\ parts # <<>>
        /\ (IF parts[1] = W_sudo /\ Len(parts) > 1 THEN parts[2] ELSE parts[1])
               \in StreamingCommands

\* C22: a turn starts a background job exactly when its line reaches the
\* interactive dispatch and ends in a single, unescaped trailing &; and a
\* line that reaches the interactive dispatch runs in the background if it
\* ends so, else as a stream if its base command is of the streaming set,
\* else with the terminal passed through.
C22_BackgroundOnTrailingAmpersand ==
    [][\A line \in RunLines, popen_ok \in BOOLEAN, pgid_ok \in BOOLEAN :
         ExecuteLine(line, TRUE, "written", popen_ok, pgid_ok, "none", TRUE)
         => LET interactive ==
                    execute(ShellState, line, TRUE, "written").route = "interactive"
                background == EndsInSingleAmpersand(line)
            IN  /\ (next_job_id' # next_job_id) <=> (interactive /\ background)
                /\ interactive
                      => dispatched'.mode =
                            IF background THEN "background"
                            ELSE IF BaseCommandStreams(line) /\ popen_ok
                            THEN "streaming"
                            ELSE "passthrough"]_vars

(* ------------------------------ script mode ---------------------------- *)

\* The line is one of the rules before the script-mode rule: a literal
\* builtin, an ! command or a py toggle.
BeforeScriptRule(line) ==
    LET normalized == Strip(line)
    IN  \/ normalized \in {W_help, W_config_reload, <<"/">> \o W_config_reload,
                           W_cleanup_memory}
        \/ StartsWith(line, <<"!">>)
        \/ normalized \in {W_py, W_exit \o W_py}
        \/ StartsWith(normalized, W_py \o SP)

\* The outcome leaves alone what alias, export, cd, job-control and
\* subprocess handling work on.
OnlyScriptTouched(out) ==
    /\ out.aliases = aliases
    /\ out.alias_file = alias_file
    /\ out.environ = environ
    /\ out.cwd = cwd
    /\ out.previous_directory = previous_directory
    /\ out.launch = <<>>
    /\ out.mode = "none"

\* While script mode is on, the line is taken by script mode, the words of
\* `shortcuts` as shortcuts and every other line by the interpreter, and
\* exit leaves script mode without the exit signal.
ScriptModeTakes(line, shortcuts) ==
    LET out == execute_try(ShellState, line, TRUE, "written", TRUE, "none", TRUE)
    IN  (script_active /\ Strip(line) # <<>> /\ ~BeforeScriptRule(line))
        => /\ OnlyScriptTouched(out)
           /\ out.route = IF Strip(line) \in shortcuts
                          THEN "script_shortcut" ELSE "script_line"
           /\ Strip(line) = W_exit
                 => ~out.script_active /\ out.result = "none"

\* C23 as stated: while script mode is on, a line that no earlier rule
\* takes never reaches alias, export, cd, job-control or subprocess
\* handling; exit, clear and cancel are shortcuts, every other line goes to
\* the interpreter, and exit leaves script mode and returns no exit signal.
C23_ScriptModeTakesLine ==
    \A line \in Lines :
        ScriptModeTakes(line, {W_exit, W_clear, <<"c", "a", "n", "c", "e", "l">>})

\* C23, amended: the same, for lines that are not blank, with the shortcuts
\* exit, exit(), quit, quit(), clear and cancel.
C23_ScriptModeTakesLineOrQuit ==
    \A line \in Lines :
        ScriptModeTakes(line, {W_exit, W_exit \o <<"(", ")">>,
                               <<"q", "u", "i", "t">>,
                               <<"q", "u", "i", "t", "(", ")">>,
                               W_clear, <<"c", "a", "n", "c", "e", "l">>})

\* exit was typed in script mode: script mode is off and the loop goes on.
C23_Witness ==
    /\ dispatched.route = "script_shortcut"
    /\ dispatched.command = W_exit
    /\ dispatched.result = "none"
    /\ ~script_active

(* ------------------------------- streaming ----------------------------- *)

\* The user has cancelled: Ctrl-C raised KeyboardInterrupt in the call, or
\* the interrupt byte was read.
CancelRequested == stream.pc = "except" \/ stream.cancelled

\* The process was sent an interrupt or a terminate signal.
SignalSent ==
    /\ child.sent # <<>>
    /\ \A i \in 1..Len(child.sent) : child.sent[i][1] \in {SIGINT, SIGTERM}

\* The call is over: it has returned, or an exception has left it.
StreamOver == stream.pc \in {"returned", "raised"}

C25_CacheNeverStale ==
    available_commands_cache # NoCache
    => available_commands_cache[1] =
           Keys(aliases) \cup path_executables(environ)

\* C26: the completion subsystem is notified in every turn that changes the
\* working directory, by cd or by a bare directory name, and in every turn
\* that runs a regular command whose base command creates or removes files.
C26_CompletionNotified ==
    [][/\ cwd' # cwd => dispatched'.updated
       /\ (/\ dispatched'.route = "regular"
           /\ Words(dispatched'.command)[1] \in modify_commands)
          => dispatched'.updated]_vars

(* ------------------------------ blank lines ---------------------------- *)

\* The lines of Lines that hold nothing but blanks.
BlankLines == {line \in Lines : Strip(line) = <<>>}

\* C27: a turn for a line of blanks is classified empty, returns no signal,
\* and changes no job, process, environment variable, alias, directory,
\* cache or script mode, whatever the state, script mode included.
C27_BlankLineChangesNothing ==
    [][\A line \in BlankLines :
         ExecuteLine(line, TRUE, "written", TRUE, TRUE, "none", TRUE)
         => /\ dispatched'.route = "empty"
            /\ dispatched'.result = "none"
            /\ ~dispatched'.error
            /\ dispatched'.mode = "none"
            /\ UNCHANGED <<job_vars, aliases, alias_file, environ, cwd,
                           previous_directory, script_active,
                           awaiting_more, available_commands_cache,
                           stream_vars>>]_vars

\* A line of blanks was the latest line, in script mode.
C27_Witness ==
    /\ dispatched.route = "empty"
    /\ Strip(dispatched.command) = <<>>
    /\ dispatched.command # <<>>
    /\ script_active

(* ------------------------------ assignments ---------------------------- *)

\* Every token of the line has the shape name=value.
AllTokensAssign(line) ==
    LET split == shlex_split(line)
    IN  /\ split.ok
        /\ split.tokens # <<>>
        /\ \A i \in 1..Len(split.tokens) : Contains(split.tokens[i], "=")

\* The names the tokens of such a line assign to.
AssignedNames(line) ==
    LET tokens == shlex_split(line).tokens
    IN  [i \in 1..Len(tokens) |-> SplitOnce(tokens[i], "=")[1]]

\* A pure-assignment line: every token is name=value with a valid name.
PureAssignment(line) ==
    /\ AllTokensAssign(line)
    /\ \A i \in 1..Len(AssignedNames(line)) :
           is_valid_identifier(AssignedNames(line)[i])

\* The environment with the assignments of the line made, one by one.
RECURSIVE Assigned(_, _)
Assigned(env, tokens) ==
    IF tokens = <<>> THEN env
    ELSE Assigned(Put(env, SplitOnce(Head(tokens), "=")[1],
                           SplitOnce(Head(tokens), "=")[2]),
                  Tail(tokens))

\* C28: in shell mode a turn for a pure-assignment line sets exactly the
\* variables it names, runs no command, and leaves the other variables, the
\* aliases, the jobs and the working directory as they were; and a turn for
\* a line of name=value tokens with an invalid name sets no variable.
C28_AssignmentSetsExactly ==
    [][\A line \in DirLines :
         (/\ ExecuteLine(line, TRUE, "written", TRUE, TRUE, "none", TRUE)
          /\ ~script_active
          /\ AllTokensAssign(line))
         => IF PureAssignment(line)
            THEN /\ SameDict(environ', Assigned(environ, shlex_split(line).tokens))
                 /\ dispatched'.route = "assignment"
                 /\ UNCHANGED <<job_vars, aliases, alias_file, cwd,
                                previous_directory>>
            ELSE environ' = environ]_vars

\* The steps on which _bring_job_to_foreground returns to its caller: the
\* early returns for an unknown or completed job, the end of the wait, and
\* the `except Exception` clause.  (Every job is registered with the Popen
\* object it was started with, lines 939-947, so the return on a missing
\* process object, lines 1314-1316, is taken by no job.)
BringReturns ==
    \/ \E job_id \in AskedIds \ {NoJob} : FgCommand(job_id) /\ pc' = "prompt"
    \/ FgWaitReturns
    \/ FgException

\* C29: after _bring_job_to_foreground has returned, by whichever path, the
\* foreground-job reference is null.
C29_ForegroundRefNullOnReturn ==
    [][BringReturns => foreground_job' = NoJob]_vars

Signals == {SIGCONT, SIGTSTP, SIGINT, SIGTERM, SIGKILL}

\* One call of _send_signal_to_job on a known job follows the rule of
\* delivery: there is an attempt; the first attempt is to the process
\* group; the single process is tried exactly when the group attempt
\* failed; and the call reports failure exactly when no attempt succeeded.
DeliveryRule(job_id, sig, d) ==
    LET tries == SignalAttempts(job_id, sig, d)
        to_process == {i \in 1..Len(tries) : tries[i][3] = "process"}
        group_failed == \E i \in 1..Len(tries) :
                            tries[i][3] = "group" /\ ~tries[i][4]
        no_group == \A i \in 1..Len(tries) : tries[i][3] # "group"
    IN  /\ tries # <<>>
        /\ jobs[job_id].pgid # NoPgid => tries[1][3] = "group"
        /\ to_process # {} <=> (group_failed \/ no_group)
        /\ ~send_signal_to_job(job_id, sig, d)
             <=> \A i \in 1..Len(tries) : ~tries[i][4]

\* C31: a signal for a known job goes to the job's process group first, to
\* the single process if and only if the group delivery failed, and failure
\* is reported only when both failed; a job without a process-group id is
\* still signalled through its process id.
C31_GroupThenProcess ==
    \A job_id \in JobIds, sig \in Signals, d \in Deliveries :
        DeliveryRule(job_id, sig, d)

\* The first job of the selection sequence that is in the table with a
\* status in `wanted`, found by position; NoJob when there is none.
FirstInSequence(wanted) ==
    LET at == {i \in 1..Len(task_queue) :
                 /\ task_queue[i] \in JobIds
                 /\ jobs[task_queue[i]].status \in wanted}
    IN  IF at = {} THEN NoJob
        ELSE task_queue[CHOOSE i \in at : \A k \in at : i <= k]

\* What bare `fg`, bare `bg` and the spec `%+` select.
SelectionRule ==
    /\ SelectJob("fg", <<>>) = FirstInSequence({"running", "stopped"})
    /\ SelectJob("bg", <<>>) = FirstInSequence({"stopped"})
    /\ task_queue # <<>> =>
         /\ SelectJob("fg", << <<"%", "+">> >>) = task_queue[1]
         /\ SelectJob("bg", << <<"%", "+">> >>) = task_queue[1]

\* `fg` or `bg` for which no job was selected reports an error, sends no
\* signal and leaves the jobs, the foreground reference and the terminal.
NoJobSelected ==
    (FgCommand(NoJob) \/ BgCommand(NoJob)) =>
      /\ last' = Did("error", <<>>)
      /\ UNCHANGED <<jobs, task_queue, foreground_job, saved_terminal,
                     tty_owner, pc>>

\* C32: bare `fg` selects the first job of the selection sequence that is
\* running or stopped, bare `bg` the first that is stopped; when there is
\* none an error is reported and no job status, foreground reference or
\* terminal ownership changes; `%+` selects the head of the sequence
\* whatever its status.
C32_BareSelection ==
    /\ []SelectionRule
    /\ [][NoJobSelected]_vars

\* C32 witness: bare `fg` has passed over the completed job at the head of
\* the selection sequence and taken the older job behind it.
C32_Witness ==
    /\ pc = "fg_resume"
    /\ Len(task_queue) = 2
    /\ jobs[task_queue[1]].status \in Final
    /\ foreground_job = task_queue[2]
    /\ foreground_job = FirstInSequence({"running", "stopped"})

\* The line `cd -`.
CdBack == W_cd \o SP \o <<"-">>

\* The outcome is a change of directory that succeeded.
ChangedDirectory(out) == out.route = "cd" /\ ~out.error

\* Two `cd -` in a row, both successful, starting in the present state:
\* the working directory and previous_directory are as before the first.
CdBackTwice ==
    LET one == execute(ShellState, CdBack, TRUE, "written")
        two == execute(one, CdBack, TRUE, "written")
    IN  (ChangedDirectory(one) /\ ChangedDirectory(two)) =>
          /\ one.cwd = previous_directory
          /\ one.previous_directory = cwd
          /\ two.cwd = cwd
          /\ two.previous_directory = previous_directory

\* C33: after every successful change of directory, by `cd` or by auto-cd,
\* previous_directory is the working directory of just before the change;
\* so two successful `cd -` in a row bring the working directory and
\* previous_directory back to what they were before the first.
C33_PreviousIsWhereWeWere ==
    /\ []CdBackTwice
    /\ [][\A line \in DirLines :
            (Execute(line, TRUE, "written") /\ ChangedDirectory(dispatched'))
            => previous_directory' = cwd]_vars

\* C33 witness: a `cd -` has just taken the shell from one directory to
\* another one, the one it had come from.
C33_Witness ==
    /\ dispatched.command = CdBack
    /\ ChangedDirectory(dispatched)
    /\ cwd # previous_directory
    /\ cwd = Append(Home, <<"d">>)

\* The line execute has just dealt with went to the handler of the builtin
\* `word` only if its first token is that word.
OnlyExactWord(route, word) ==
    dispatched.route = route => FirstToken(dispatched.command) = <<word>>

\* The first token of the line only begins with the name of a builtin.
NamedLikeBuiltin(line) ==
    /\ FirstToken(line) # <<>>
    /\ FirstToken(line)[1] \notin {W_export, W_unalias, W_files}
    /\ \E word \in {W_export, W_unalias, W_files} :
           StartsWith(FirstToken(line)[1], word)

\* C34: a line goes to the export, unalias or files builtin only when its
\* first token is exactly that word; a line whose first token only begins
\* with the word (exportfs, filesync) is run as an ordinary command.
C34_BuiltinByExactWord ==
    /\ OnlyExactWord("export", W_export)
    /\ OnlyExactWord("unalias", W_unalias)
    /\ OnlyExactWord("files", W_files)
    /\ NamedLikeBuiltin(dispatched.command) => dispatched.route = "regular"

\* A foreground run ends and gives back the terminal it had been given:
\* process.wait() returns, or the except clause is entered.
ForegroundRunEnds ==
    /\ pc = "fg_wait"
    /\ jobs[foreground_job].pgid # NoPgid
    /\ tty_owner = jobs[foreground_job].pgid
    /\ FgWaitReturns \/ FgException

\* C35: the terminal settings restored when a foreground run ends are the
\* settings that were in effect just before the terminal was handed over for
\* that run, in every foreground run of the session.
C35_RestoresSettingsOfThisRun ==
    [][ForegroundRunEnds => terminal' = old_termios[1]]_vars

(* --------------------------- end of input ------------------------------ *)

\* The indentation HybridShell.run puts before a continuation line when
\* continuation_indent is empty.
Indent == <<" ", " ", " ", " ">>

\* HybridShell.run while script mode is on (lines 1044-1061) with
\* _handle_script_submission for a single line: the shortcuts, then cancel,
\* then the interpreter.
handle_script_turn(st, user_input) ==
    LET normalized == Strip(user_input)
        shortcut == handle_script_active_shortcuts(st, normalized)
        cancel == <<"c", "a", "n", "c", "e", "l">>
    IN  IF st.awaiting_more
        THEN IF normalized = <<>>
             THEN run_line(To(st, "script_line", user_input), <<>>)
             ELSE IF normalized = cancel
             THEN cancel_pending_block(To(st, "script_shortcut", user_input))
             ELSE run_line(To(st, "script_line", user_input),
                           Indent \o LStrip(user_input))
        ELSE IF normalized # <<>> /\ shortcut[1] THEN shortcut[2]
        ELSE IF normalized = <<>>
        THEN run_line(To(st, "script_line", user_input), <<>>)
        ELSE run_line(To(st, "script_line", user_input), user_input)

\* Lines typed at the prompt in and out of script mode: script mode on and
\* off, inline code that is complete and that opens a block, code lines,
\* a blank line, and shell lines.
EofLines ==
    {
      <<"p", "y">>,
      <<"p", "y", " ", "e", "x", "i", "t">>,
      <<"p", "y", " ", "c", "a", "n", "c", "e", "l">>,
      <<"p", "y", " ", "x">>,
      <<"p", "y", " ", "i", "f", " ", "x", ":">>,
      <<"i", "f", " ", "x", ":">>,
      <<"x">>,
      <<"e", "x", "i", "t">>,
      <<"c", "a", "n", "c", "e", "l">>,
      <<" ">>,
      <<"A", "=", "1">>,
      <<"c", "d", " ", "d">>
    }

\* A turn of the loop while script mode is on: the line goes to the script
\* runtime and execute is not called.
ScriptTurn(line) ==
    /\ pc = "prompt"
    /\ dispatched.result = "none"
    /\ script_active
    /\ Returned(handle_script_turn(ShellState, line), TRUE, TRUE)
    /\ UNCHANGED <<stream_vars, tty_vars>>

\* A turn of the loop while script mode is off: execute(line).
ShellTurn(line) ==
    /\ pc = "prompt"
    /\ ~script_active
    /\ Execute(line, TRUE, "written")

\* EOFError at the prompt (hybrid_shell.py lines 1086-1092): in script mode
\* exit_script_mode() and `continue`, else the loop is left.
EndOfInput ==
    /\ pc = "prompt"
    /\ dispatched.result = "none"
    /\ IF in_script_mode(ShellState)
       THEN /\ script_active' = exit_script_mode(ShellState).script_active
            /\ awaiting_more' = exit_script_mode(ShellState).awaiting_more
            /\ eof_absorbed' = TRUE
            /\ UNCHANGED <<aliases, alias_file, environ, cwd,
                           previous_directory, available_commands_cache,
                           dispatched>>
            /\ UNCHANGED <<job_vars, stream_vars, tty_vars>>
       ELSE LoopEnds("eof")

EofNext ==
    \/ \E line \in EofLines : ShellTurn(line)
    \/ \E line \in EofLines : ScriptTurn(line)
    \/ EndOfInput

EofSpec == Init /\ [][EofNext]_vars

\* C36: once the loop has absorbed an end-of-input because the shell
\* reported script mode (script mode on, or an inline `py <code>` that left
\* a block pending), the shell no longer reports script mode, so that the
\* next end-of-input in a row ends the loop.
C36_EndOfInputLeavesScriptMode ==
    (pc = "prompt" /\ eof_absorbed) => ~in_script_mode(ShellState)

\* C37: in every reachable state the selection sequence holds exactly the
\* ids of the job table, each once, in strictly descending order, and the
\* next id to be assigned is greater than every id in the table.
C37_SequenceIsTableDescending ==
    /\ {task_queue[i] : i \in 1..Len(task_queue)} = JobIds
    /\ Len(task_queue) = Cardinality(JobIds)
    /\ \A i, k \in 1..Len(task_queue) : i < k => task_queue[i] > task_queue[k]
    /\ \A job_id \in JobIds : job_id < next_job_id

\* Two jobs are listed, the older one finished, the newer one first.
C37_Witness ==
    /\ Len(task_queue) = 2
    /\ jobs[task_queue[2]].status \in Final
    /\ jobs[task_queue[1]].status \notin Final
    /\ next_job_id = task_queue[1] + 1

\* A background launch in which subprocess.Popen raises.
LaunchFails ==
    \E command \in Commands, pgid_ok \in BOOLEAN :
        LaunchAlongside(command, FALSE, pgid_ok)

\* C38: when process creation fails during a background launch, an error is
\* reported, no job is added to the job table or to the selection sequence,
\* no monitor is started, and the jobs there are stay as they are.
C38_FailedLaunchAddsNothing ==
    [][LaunchFails
         => /\ last'.result = "error"
            /\ jobs' = jobs
            /\ task_queue' = task_queue
            /\ monitor' = monitor
            /\ proc' = proc]_vars

\* A launch has just failed while an earlier job is running: its id was
\* taken, and the running job is the only one listed.
C38_Witness ==
    /\ last.result = "error"
    /\ Len(task_queue) = 1
    /\ next_job_id = task_queue[1] + 2
    /\ jobs[task_queue[1]].status = "running"
    /\ proc[task_queue[1]] = <<>>
    /\ monitor[task_queue[1]] = "polling"

\* C39: in every reachable state a job whose status is done has a process
\* that has exited (it is neither running nor stopped), the jobs that
\* _cleanup_all_jobs marks done after a signal that was not delivered, or
\* whose effect was not awaited, included.
C39_DoneMeansExited ==
    \A job_id \in JobIds : jobs[job_id].status = "done" => proc[job_id] # <<>>

====
